---- MODULE Spec2Model ----
(***************************************************************************)
(* Model of the reveal/scoring engine of mugen_sweeper (logic/gameLogic)   *)
(* and of the reducer of context/GameContext.tsx that drives it.           *)
(*                                                                         *)
(* The board is unbounded in the program.  The model explores the random   *)
(* draws of the mine oracle only inside a window around the origin: every  *)
(* draw outside the window is "mine", so a flood-fill stops at the window's *)
(* border and the Cell Store stays finite.  Every behaviour of the model   *)
(* is a behaviour of the program under one sequence of random draws.       *)
(*                                                                         *)
(* Spec is the reducer, EngineSpec the engine with every entry point,      *)
(* CapSpec the flood-fill under a small cap, ViewSpec the board view of    *)
(* components/BoardView.tsx with the reducer's LOAD_FROM_STORAGE and       *)
(* RESET, OracleSpec the mine oracle and CodecSpec the coordinate codec of *)
(* types/game.ts applied to their inputs, FloodSpec the flood-fill called *)
(* on its own, ProviderSpec the provider of context/GameContext.tsx with   *)
(* its effects and utils/storage.ts, FairProviderSpec the same with the    *)
(* effects of every render run.                                            *)
(***************************************************************************)
EXTENDS Integers, Sequences, FiniteSets, TLC

VARIABLES state, last, maxVisits, view, localStorage, provider, SAVE_DATA_VERSION

vars == <<state, last, maxVisits, view, localStorage, provider, SAVE_DATA_VERSION>>

\* ---------------------------------------------------------------- bounds

\* The random draws of the oracle are explored both ways at the first
\* MaxRandom coordinates of RandomOrder; every other draw is fixed: "not a
\* mine" inside the window x \in -1..2, y \in -1..1, "mine" outside it.
MaxRandom == 1

\* A reveal of a revealed non-mine cell is issued only while score < MaxScore
\* (the re-reveal of a revealed numbered cell can raise the score without
\* end); every other reveal and every chord is always issued.
MaxScore == 4

\* The board view takes at most MaxViewEvents resize, mouse and wheel events
\* in a behaviour (a pan can move the offset without end).
MaxViewEvents == 4

\* The oracle is called directly at the coordinates with |x|, |y| <= MaxOracle.
MaxOracle == 4

\* The codec is applied to the coordinates with |x|, |y| <= MaxCodec.
MaxCodec == 10

\* RESET is dispatched only while highScore < MaxResetHighScore (every
\* carried-over high score multiplies the states of the next game), and
\* SET_HIGH_SCORE carries a value of 0..MaxResetHighScore.
MaxResetHighScore == 2

\* CapSpec runs the flood-fill with its cap set to 1..MaxCap, so that the cap
\* is reached on a small board.
MaxCap == 4

\* ProviderSpec takes at most MaxProviderEvents clicks, RESETs and reloads
\* of the page.
MaxProviderEvents == 2

\* -------------------------------------------------------------- constants

\* INITIAL_LIVES and LIFE_BONUS_THRESHOLD are set in config/gameConfig, which
\* is not among the sources; the model gives them small values.
INITIAL_LIVES == 1

LIFE_BONUS_THRESHOLD == 5

\* const MAX_VISITS = 20_000; the variable maxVisits holds the cap the
\* flood-fill runs with, MAX_VISITS in Spec and EngineSpec.
MAX_VISITS == 20000

\* const CELL_SIZE = 32 and const DRAG_THRESHOLD = 5 of the board view
CELL_SIZE == 32

DRAG_THRESHOLD == 5

Coord(x, y) == [x |-> x, y |-> y]

NEIGHBORS ==
  << Coord(-1, -1), Coord(0, -1), Coord(1, -1),
     Coord(-1, 0),                Coord(1, 0),
     Coord(-1, 1),  Coord(0, 1),  Coord(1, 1) >>

\* ------------------------------------------------------ coordinate codec

DigitChars == << "0", "1", "2", "3", "4", "5", "6", "7", "8", "9" >>

Digit(d) == DigitChars[d + 1]

RECURSIVE natToString(_)
natToString(n) ==
  IF n < 10 THEN <<Digit(n)>> ELSE natToString(n \div 10) \o <<Digit(n % 10)>>

\* Variant of numberToString that leaves out the sign.
numberToStringNoSign(n) == natToString(IF n < 0 THEN -n ELSE n)

\* `${n}` for an integer n: a sequence of characters
numberToString(n) == IF n < 0 THEN <<"-">> \o natToString(-n) ELSE natToString(n)

\* `${coord.x},${coord.y}`
formatCellKey(coord) ==
  numberToString(coord.x) \o <<",">> \o numberToString(coord.y)

\* key.split(','): the pieces of key between its commas, from index i, with
\* the piece read so far
RECURSIVE splitFrom(_, _, _)
splitFrom(str, i, piece) ==
  IF i > Len(str)
    THEN <<piece>>
    ELSE IF str[i] = ","
      THEN <<piece>> \o splitFrom(str, i + 1, <<>>)
      ELSE splitFrom(str, i + 1, Append(piece, str[i]))

split(str) == splitFrom(str, 1, <<>>)

IsDigit(ch) == \E d \in 0..9 : Digit(d) = ch

DigitValue(ch) == CHOOSE d \in 0..9 : Digit(d) = ch

AllDigits(str) == \A i \in 1..Len(str) : IsDigit(str[i])

RECURSIVE digitsToNat(_, _)
digitsToNat(str, acc) ==
  IF str = <<>> THEN acc ELSE digitsToNat(Tail(str), 10 * acc + DigitValue(Head(str)))

\* Number(str) for a string of decimal digits with an optional minus sign;
\* the empty string is 0 and any other string is NaN.
Number(str) ==
  IF str = <<>>
    THEN 0
    ELSE IF AllDigits(str)
      THEN digitsToNat(str, 0)
      ELSE IF str[1] = "-" /\ Len(str) > 1 /\ AllDigits(Tail(str))
        THEN 0 - digitsToNat(Tail(str), 0)
        ELSE "NaN"

\* const [x, y] = parts: the i-th element, undefined when there is none
element(parts, i) == IF i <= Len(parts) THEN Number(parts[i]) ELSE "undefined"

\* const [x, y] = key.split(',').map(Number); return { x, y }
fromCellKey(str) == [x |-> element(split(str), 1), y |-> element(split(str), 2)]

\* formatCellKey tabulated once for the coordinates near the origin
CellKeyTable == [c \in [x : -5..8, y : -5..5] |-> formatCellKey(c)]

toCellKey(coord) == CellKeyTable[coord]

\* ------------------------------------------------------------ mine oracle

InSafeZone(coord) ==
  /\ coord.x >= -1 /\ coord.x <= 1
  /\ coord.y >= -1 /\ coord.y <= 1

InWindow(coord) ==
  /\ coord.x >= -1 /\ coord.x <= 2
  /\ coord.y >= -1 /\ coord.y <= 1

RandomOrder == << Coord(2, 0), Coord(2, 1), Coord(2, -1) >>

\* The coordinates whose random draw is explored both ways.
RandomCoords == { RandomOrder[i] : i \in 1..MaxRandom }

\* One outcome of Math.random() < MINE_PROBABILITY per coordinate.
Draws == [RandomCoords -> BOOLEAN]

\* The draws for the coordinates the store does not hold yet (the oracle is
\* not consulted for the others; their draw is fixed to keep the choice small).
DrawsFor(cells) ==
  { d \in Draws : \A c \in RandomCoords : toCellKey(c) \in DOMAIN cells => ~d[c] }

\* The draws in which Math.random() < MINE_PROBABILITY is false at every
\* coordinate: the default oracle then answers as a never-mine oracle.
AllClear == [c \in DOMAIN CellKeyTable |-> FALSE]

\* Math.random() < MINE_PROBABILITY at coord under the draw
RandomIsMine(draw, coord) ==
  IF coord \in DOMAIN draw THEN draw[coord] ELSE ~InWindow(coord)

\* Variant of defaultIsMineGenerator without the safe zone.
defaultIsMineGeneratorNoSafeZone(draw, coord) == RandomIsMine(draw, coord)

defaultIsMineGenerator(draw, coord) ==
  IF InSafeZone(coord) THEN FALSE ELSE RandomIsMine(draw, coord)

\* ------------------------------------------------------------- cell store

\* Every operator below takes the values the code holds in local variables
\* as parameters, one operator per stretch of the function it models.

\* Map.set
MapSet(cells, key, value) ==
  IF key \in DOMAIN cells THEN [cells EXCEPT ![key] = value] ELSE (key :> value) @@ cells

\* Map.has / Map.get(key) !== undefined
Has(cells, key) == key \in DOMAIN cells

EmptyCells == <<>>

\* Variant of newCell that creates the cell flagged.
newCellFlagged(coord, draw) ==
  [coord |-> coord,
   isMine |-> defaultIsMineGenerator(draw, coord),
   adjacentMines |-> 0,
   revealed |-> FALSE,
   flagged |-> TRUE]

\* const newCell = { coord, isMine: isMineGenerator(coord), adjacentMines: 0, ... }
newCell(coord, draw) ==
  [coord |-> coord,
   isMine |-> defaultIsMineGenerator(draw, coord),
   adjacentMines |-> 0,
   revealed |-> FALSE,
   flagged |-> FALSE]

\* Variant of getOrCreateCell that asks the oracle again for a stored cell.
getOrCreateCellNoCache(cells, coord, draw) ==
  MapSet(cells, toCellKey(coord), newCell(coord, draw))

\* The store after getOrCreateCell(cells, coord, gen); the cell it returns
\* is the store's entry at toCellKey(coord).
getOrCreateCell(cells, coord, draw) ==
  IF Has(cells, toCellKey(coord))
    THEN cells
    ELSE MapSet(cells, toCellKey(coord), newCell(coord, draw))

Shift(coord, n) == Coord(coord.x + n.x, coord.y + n.y)

\* NEIGHBORS.forEach(n => getOrCreateCell(cells, coord + n, gen)), from index i
RECURSIVE createNeighbors(_, _, _, _)
createNeighbors(cells, coord, draw, i) ==
  IF i > Len(NEIGHBORS)
    THEN cells
    ELSE createNeighbors(getOrCreateCell(cells, Shift(coord, NEIGHBORS[i]), draw),
                         coord, draw, i + 1)

\* neighbor?.isMine
IsMineAt(cells, key) == Has(cells, key) /\ cells[key].isMine

\* Variant of calculateAdjacentMines that creates the missing neighbours
\* before it counts.
calculateAdjacentMinesCreating(cells, coord) ==
  Cardinality({ i \in 1..Len(NEIGHBORS) :
                  IsMineAt(createNeighbors(cells, coord, [c \in RandomCoords |-> FALSE], 1),
                           toCellKey(Shift(coord, NEIGHBORS[i]))) })

calculateAdjacentMines(cells, coord) ==
  Cardinality({ i \in 1..Len(NEIGHBORS) :
                  IsMineAt(cells, toCellKey(Shift(coord, NEIGHBORS[i]))) })

\* ------------------------------------------------------------- flood fill

\* Variant of enqueue that does not look at the visited set.
enqueueAlways(qv, neighborCoord, neighborKey) ==
  [qv EXCEPT !.queue = Append(@, neighborCoord),
             !.visited = @ \cup {neighborKey},
             !.pushed = Append(@, neighborCoord)]

\* if (!visited.has(neighborKey)) { visited.add(neighborKey); queue.push(neighborCoord) }
\* pushed records every coordinate given to queue.push, in order.
enqueue(qv, neighborCoord, neighborKey) ==
  IF neighborKey \notin qv.visited
    THEN [qv EXCEPT !.queue = Append(@, neighborCoord),
                    !.visited = @ \cup {neighborKey},
                    !.pushed = Append(@, neighborCoord)]
    ELSE qv

RECURSIVE enqueueNeighbors(_, _, _)

\* Variant of enqueueNeighbors that leaves out the last neighbour.
enqueueNeighborsButLast(qv, coord, i) ==
  IF i > Len(NEIGHBORS) - 1
    THEN qv
    ELSE enqueueNeighbors(
           enqueue(qv, Shift(coord, NEIGHBORS[i]), toCellKey(Shift(coord, NEIGHBORS[i]))),
           coord, i + 1)

\* for (const n of NEIGHBORS) { ... } of _revealArea, from index i;
\* qv = [queue, visited, pushed, iterations]
enqueueNeighbors(qv, coord, i) ==
  IF i > Len(NEIGHBORS)
    THEN qv
    ELSE enqueueNeighbors(
           enqueue(qv, Shift(coord, NEIGHBORS[i]), toCellKey(Shift(coord, NEIGHBORS[i]))),
           coord, i + 1)

RECURSIVE revealAreaLoop(_, _, _, _)

\* Variant of revealAreaEnqueue that leaves out the first neighbour.
revealAreaEnqueueSkipFirst(cells, updatedCell, qv, openedCount, draw) ==
  IF ~updatedCell.isMine /\ updatedCell.adjacentMines = 0
    THEN revealAreaLoop(cells, enqueueNeighbors(qv, updatedCell.coord, 2), openedCount, draw)
    ELSE revealAreaLoop(cells, qv, openedCount, draw)

\* Variant of revealAreaEnqueue that goes on from a cell with one adjacent
\* mine too.
revealAreaEnqueueOneMine(cells, updatedCell, qv, openedCount, draw) ==
  IF ~updatedCell.isMine /\ updatedCell.adjacentMines <= 1
    THEN revealAreaLoop(cells, enqueueNeighbors(qv, updatedCell.coord, 1), openedCount, draw)
    ELSE revealAreaLoop(cells, qv, openedCount, draw)

\* if (!updatedCell.isMine && updatedCell.adjacentMines === 0) { enqueue the neighbours }
revealAreaEnqueue(cells, updatedCell, qv, openedCount, draw) ==
  IF ~updatedCell.isMine /\ updatedCell.adjacentMines = 0
    THEN revealAreaLoop(cells, enqueueNeighbors(qv, updatedCell.coord, 1), openedCount, draw)
    ELSE revealAreaLoop(cells, qv, openedCount, draw)

\* updatedCell = { ...cell, revealed: true, adjacentMines }; cells.set(key, updatedCell);
\* openedCount += 1
revealAreaOpen(cells, updatedCell, key, qv, openedCount, draw) ==
  revealAreaEnqueue(MapSet(cells, key, updatedCell), updatedCell, qv, openedCount + 1, draw)

\* Variant of revealAreaVisit that skips revealed cells only.
revealAreaVisitFlagged(cells, coord, key, qv, openedCount, draw) ==
  IF cells[key].revealed
    THEN revealAreaLoop(cells, qv, openedCount, draw)
    ELSE revealAreaOpen(
           createNeighbors(cells, coord, draw, 1),
           [cells[key] EXCEPT
              !.revealed = TRUE,
              !.adjacentMines =
                 calculateAdjacentMines(createNeighbors(cells, coord, draw, 1), coord)],
           key, qv, openedCount, draw)

\* Variant of revealAreaVisit that counts without creating the neighbours.
revealAreaVisitNoCreate(cells, coord, key, qv, openedCount, draw) ==
  IF cells[key].revealed \/ cells[key].flagged
    THEN revealAreaLoop(cells, qv, openedCount, draw)
    ELSE revealAreaOpen(
           cells,
           [cells[key] EXCEPT
              !.revealed = TRUE,
              !.adjacentMines = calculateAdjacentMines(cells, coord)],
           key, qv, openedCount, draw)

\* if (cell.revealed || cell.flagged) continue; then the neighbours are
\* created and the adjacent mines counted
revealAreaVisit(cells, coord, key, qv, openedCount, draw) ==
  IF cells[key].revealed \/ cells[key].flagged
    THEN revealAreaLoop(cells, qv, openedCount, draw)
    ELSE revealAreaOpen(
           createNeighbors(cells, coord, draw, 1),
           [cells[key] EXCEPT
              !.revealed = TRUE,
              !.adjacentMines =
                 calculateAdjacentMines(createNeighbors(cells, coord, draw, 1), coord)],
           key, qv, openedCount, draw)

\* Variant of revealAreaLoop that tests the cap with <= in place of <.
revealAreaLoopOneMore(cells, qv, openedCount, draw) ==
  IF ~(Len(qv.queue) > 0 /\ openedCount <= maxVisits)
    THEN [cells |-> cells, openedCount |-> openedCount,
          pushed |-> qv.pushed, iterations |-> qv.iterations]
    ELSE revealAreaVisit(
           getOrCreateCell(cells, Head(qv.queue), draw),
           Head(qv.queue), toCellKey(Head(qv.queue)),
           [qv EXCEPT !.queue = Tail(@), !.iterations = @ + 1],
           openedCount, draw)

\* The while loop of _revealArea; qv = [queue, visited, pushed, iterations],
\* where iterations counts the passes of the loop; returns the store and
\* openedCount, with pushed and iterations.
revealAreaLoop(cells, qv, openedCount, draw) ==
  IF ~(Len(qv.queue) > 0 /\ openedCount < maxVisits)
    THEN [cells |-> cells, openedCount |-> openedCount,
          pushed |-> qv.pushed, iterations |-> qv.iterations]
    ELSE revealAreaVisit(
           getOrCreateCell(cells, Head(qv.queue), draw),
           Head(qv.queue), toCellKey(Head(qv.queue)),
           [qv EXCEPT !.queue = Tail(@), !.iterations = @ + 1],
           openedCount, draw)

revealArea(cells, startCoord, draw) ==
  revealAreaLoop(cells,
                 [queue |-> <<startCoord>>, visited |-> {toCellKey(startCoord)},
                  pushed |-> <<startCoord>>, iterations |-> 0],
                 0, draw)

\* ------------------------------------------------------------ flag toggle

\* Variant of toggleFlagCell that rebuilds the record it flags.
toggleFlagCellRebuild(st, cells, key) ==
  [st EXCEPT !.cells =
     MapSet(cells, key,
            [cells[key] EXCEPT !.flagged = ~cells[key].flagged, !.revealed = FALSE])]

\* Variant of toggleFlagCell that sets the flag and never clears it.
toggleFlagCellSetOnly(st, cells, key) ==
  IF cells[key].revealed
    THEN [st EXCEPT !.cells = cells]
    ELSE [st EXCEPT !.cells = MapSet(cells, key, [cells[key] EXCEPT !.flagged = TRUE])]

\* Variant of toggleFlagCell that flips the flag of a revealed cell too.
toggleFlagCellAnyCell(st, cells, key) ==
  [st EXCEPT !.cells =
     MapSet(cells, key, [cells[key] EXCEPT !.flagged = ~cells[key].flagged])]

\* if (cell.revealed) return { ...state, cells }; else the flag is flipped
toggleFlagCell(st, cells, key) ==
  IF cells[key].revealed
    THEN [st EXCEPT !.cells = cells]
    ELSE [st EXCEPT !.cells =
            MapSet(cells, key, [cells[key] EXCEPT !.flagged = ~cells[key].flagged])]

toggleFlag(st, coord, draw) ==
  IF st.gameOver
    THEN st
    ELSE toggleFlagCell(st, getOrCreateCell(st.cells, coord, draw), toCellKey(coord))

\* ------------------------------------------------------- reveal and chord

\* Variant of lifeBonusLoop with an if in place of the while.
lifeBonusOnce(currentScore, currentLives, currentNextLifeScoreThreshold) ==
  IF currentScore >= currentNextLifeScoreThreshold
    THEN [lives |-> currentLives + 1,
          nextLifeScoreThreshold |->
            currentNextLifeScoreThreshold + LIFE_BONUS_THRESHOLD]
    ELSE [lives |-> currentLives,
          nextLifeScoreThreshold |-> currentNextLifeScoreThreshold]

\* while (currentScore >= threshold) { lives += 1; threshold += LIFE_BONUS_THRESHOLD }
RECURSIVE lifeBonusLoop(_, _, _)
lifeBonusLoop(currentScore, currentLives, currentNextLifeScoreThreshold) ==
  IF currentScore >= currentNextLifeScoreThreshold
    THEN lifeBonusLoop(currentScore, currentLives + 1,
                       currentNextLifeScoreThreshold + LIFE_BONUS_THRESHOLD)
    ELSE [lives |-> currentLives,
          nextLifeScoreThreshold |-> currentNextLifeScoreThreshold]

\* Math.max
Max(a, b) == IF a >= b THEN a ELSE b

\* Variant of gameOverAfterMine that ends the game one life too late.
gameOverAfterMineStrict(currentLives) == currentLives < 0

\* currentGameOver = currentLives <= 0
gameOverAfterMine(currentLives) == currentLives <= 0

\* An engine operation returns [state, calls]: the GameState it returns and
\* the log of the reveal and toggleFlag calls the chord loops issued, in
\* order, each with the state it returned.
Out(st, calls) == [state |-> st, calls |-> calls]

Call(fn, coord, isUserInitiated, returned) ==
  [fn |-> fn, coord |-> coord, isUserInitiated |-> isUserInitiated,
   returned |-> returned]

\* return { ...state, cells, score, lives, nextLifeScoreThreshold, highScore, gameOver }
revealReturn(st, cells, currentScore, bonus, currentGameOver) ==
  [st EXCEPT
     !.cells = cells,
     !.score = currentScore,
     !.lives = bonus.lives,
     !.nextLifeScoreThreshold = bonus.nextLifeScoreThreshold,
     !.highScore = Max(st.highScore, currentScore),
     !.gameOver = currentGameOver]

\* if (openedCount > 0) currentScore += openedCount; then the life-bonus loop
revealScore(st, cells, openedCount, currentLives, currentGameOver) ==
  revealReturn(st, cells,
    IF openedCount > 0 THEN st.score + openedCount ELSE st.score,
    lifeBonusLoop(IF openedCount > 0 THEN st.score + openedCount ELSE st.score,
                  currentLives, st.nextLifeScoreThreshold),
    currentGameOver)

\* const result = revealArea(cells, coord, gen); openedCount = result.openedCount
revealBlank(st, area) ==
  revealScore(st, area.cells, area.openedCount, st.lives, st.gameOver)

\* Variant of revealBranch in which the reveal of a mine scores a point.
revealBranchMineScores(st, cells, coord, key, draw) ==
  IF cells[key].isMine
    THEN revealScore(st, MapSet(cells, key, [cells[key] EXCEPT !.revealed = TRUE]),
                     1, st.lives - 1, gameOverAfterMine(st.lives - 1))
    ELSE IF cells[key].adjacentMines > 0
      THEN revealScore(st, MapSet(cells, key, [cells[key] EXCEPT !.revealed = TRUE]),
                       1, st.lives, st.gameOver)
      ELSE revealBlank(st, revealArea(cells, coord, draw))

\* if (cell.isMine) ... else if (cell.adjacentMines > 0) ... else ...
revealBranch(st, cells, coord, key, draw) ==
  IF cells[key].isMine
    THEN revealScore(st, MapSet(cells, key, [cells[key] EXCEPT !.revealed = TRUE]),
                     0, st.lives - 1, gameOverAfterMine(st.lives - 1))
    ELSE IF cells[key].adjacentMines > 0
      THEN revealScore(st, MapSet(cells, key, [cells[key] EXCEPT !.revealed = TRUE]),
                       1, st.lives, st.gameOver)
      ELSE revealBlank(st, revealArea(cells, coord, draw))

\* const adjacentMines = calculateAdjacentMines(cells, coord);
\* cell = { ...cell, adjacentMines }; cells.set(toCellKey(coord), cell)
revealCount(st, cells, coord, key, draw) ==
  revealBranch(st,
    MapSet(cells, key,
           [cells[key] EXCEPT !.adjacentMines = calculateAdjacentMines(cells, coord)]),
    coord, key, draw)

RECURSIVE chordCell(_, _, _)

\* The flag guard and the chord delegation of _revealCell, then the
\* creation of the neighbours.
revealTarget(st, cells, coord, key, draw, isUserInitiated) ==
  IF cells[key].flagged
    THEN Out([st EXCEPT !.cells = cells], <<>>)
    ELSE IF cells[key].revealed /\ isUserInitiated
      THEN chordCell(st, coord, draw)
      ELSE Out(revealCount(st, createNeighbors(cells, coord, draw, 1), coord, key, draw),
               <<>>)

\* Variant of revealCell without the gameOver guard.
revealCellNoGuard(st, coord, draw, isUserInitiated) ==
  revealTarget(st, getOrCreateCell(st.cells, coord, draw), coord,
               toCellKey(coord), draw, isUserInitiated)

revealCell(st, coord, draw, isUserInitiated) ==
  IF st.gameOver
    THEN Out(st, <<>>)
    ELSE revealTarget(st, getOrCreateCell(st.cells, coord, draw), coord,
                      toCellKey(coord), draw, isUserInitiated)

RECURSIVE chordRevealLoop(_, _, _, _, _)

\* Variant of chordRevealNext that leaves the loop after the first reveal.
chordRevealNextBreakAlways(next, neighbors, i, draw, calls) == Out(next, calls)

\* Variant of chordRevealNext without the break on gameOver.
chordRevealNextNoBreak(next, neighbors, i, draw, calls) ==
  chordRevealLoop(next, neighbors, i + 1, draw, calls)

\* newState = revealCell(newState, neighbor.coord, gen, false);
\* if (newState.gameOver) break
chordRevealNext(next, neighbors, i, draw, calls) ==
  IF next.gameOver
    THEN Out(next, calls)
    ELSE chordRevealLoop(next, neighbors, i + 1, draw, calls)

\* Variant of chordRevealLoop that reveals the neighbours as user clicks.
chordRevealLoopUser(newState, neighbors, i, draw, calls) ==
  IF i > Len(neighbors)
    THEN Out(newState, calls)
    ELSE IF ~neighbors[i].revealed /\ ~neighbors[i].flagged
      THEN chordRevealNext(
             revealCell(newState, neighbors[i].coord, draw, TRUE).state,
             neighbors, i, draw,
             Append(calls,
                    Call("revealCell", neighbors[i].coord, TRUE,
                         revealCell(newState, neighbors[i].coord, draw, TRUE).state)))
      ELSE chordRevealLoop(newState, neighbors, i + 1, draw, calls)

\* for (const neighbor of neighbors) of the auto-reveal branch, from index i
chordRevealLoop(newState, neighbors, i, draw, calls) ==
  IF i > Len(neighbors)
    THEN Out(newState, calls)
    ELSE IF ~neighbors[i].revealed /\ ~neighbors[i].flagged
      THEN chordRevealNext(
             revealCell(newState, neighbors[i].coord, draw, FALSE).state,
             neighbors, i, draw,
             Append(calls,
                    Call("revealCell", neighbors[i].coord, FALSE,
                         revealCell(newState, neighbors[i].coord, draw, FALSE).state)))
      ELSE chordRevealLoop(newState, neighbors, i + 1, draw, calls)

\* Variant of chordFlagLoop that flags the first closed neighbour only.
chordFlagLoopFirstOnly(newState, neighbors, i, draw, calls) ==
  IF i > Len(neighbors)
    THEN Out(newState, calls)
    ELSE IF ~neighbors[i].revealed /\ ~neighbors[i].flagged
      THEN Out(toggleFlag(newState, neighbors[i].coord, draw), calls)
      ELSE Out(newState, calls)

\* for (const neighbor of neighbors) of the auto-flag branch, from index i
RECURSIVE chordFlagLoop(_, _, _, _, _)
chordFlagLoop(newState, neighbors, i, draw, calls) ==
  IF i > Len(neighbors)
    THEN Out(newState, calls)
    ELSE IF ~neighbors[i].revealed /\ ~neighbors[i].flagged
      THEN chordFlagLoop(
             toggleFlag(newState, neighbors[i].coord, draw),
             neighbors, i + 1, draw,
             Append(calls,
                    Call("toggleFlag", neighbors[i].coord, FALSE,
                         toggleFlag(newState, neighbors[i].coord, draw))))
      ELSE chordFlagLoop(newState, neighbors, i + 1, draw, calls)

\* state.cells.get(toCellKey(neighborCoord)), kept when not undefined
cellAt(cells, key) == IF Has(cells, key) THEN <<cells[key]>> ELSE <<>>

\* NEIGHBORS.map(n => state.cells.get(key)).filter(c => c !== undefined), from index i
RECURSIVE neighborCells(_, _, _)
neighborCells(cells, coord, i) ==
  IF i > Len(NEIGHBORS)
    THEN <<>>
    ELSE cellAt(cells, toCellKey(Shift(coord, NEIGHBORS[i])))
           \o neighborCells(cells, coord, i + 1)

\* neighbors.filter((n) => n.flagged).length
flaggedCountOf(neighbors) ==
  Cardinality({ i \in 1..Len(neighbors) : neighbors[i].flagged })

\* Variant of revealedMineCountOf that counts every revealed neighbour.
revealedCountOf(neighbors) ==
  Cardinality({ i \in 1..Len(neighbors) : neighbors[i].revealed })

\* neighbors.filter((n) => n.revealed && n.isMine).length
revealedMineCountOf(neighbors) ==
  Cardinality({ i \in 1..Len(neighbors) : neighbors[i].revealed /\ neighbors[i].isMine })

\* neighbors.filter(n => !n.revealed && !n.flagged).length
unflaggedUnrevealedCountOf(neighbors) ==
  Cardinality({ i \in 1..Len(neighbors) : ~neighbors[i].revealed /\ ~neighbors[i].flagged })

\* Variant of chordAutoFlag that flags whenever a closed neighbour is left.
chordAutoFlagEager(st, cell, neighbors, found, unflaggedUnrevealedCount, draw) ==
  IF unflaggedUnrevealedCount > 0
    THEN chordFlagLoop(st, neighbors, 1, draw, <<>>)
    ELSE Out(st, <<>>)

\* The auto-flag branch of _chordCell.
chordAutoFlag(st, cell, neighbors, found, unflaggedUnrevealedCount, draw) ==
  IF /\ unflaggedUnrevealedCount > 0
     /\ cell.adjacentMines - found = unflaggedUnrevealedCount
    THEN chordFlagLoop(st, neighbors, 1, draw, <<>>)
    ELSE Out(st, <<>>)

\* if (cell.adjacentMines === flaggedCount + revealedMineCount) ... else ...
chordBranch(st, cell, neighbors, flaggedCount, revealedMineCount, draw) ==
  IF cell.adjacentMines = flaggedCount + revealedMineCount
    THEN chordRevealLoop(st, neighbors, 1, draw, <<>>)
    ELSE chordAutoFlag(st, cell, neighbors, flaggedCount + revealedMineCount,
                       unflaggedUnrevealedCountOf(neighbors), draw)

\* const flaggedCount = ...; const revealedMineCount = ...
chordCounts(st, cell, neighbors, draw) ==
  chordBranch(st, cell, neighbors,
              flaggedCountOf(neighbors), revealedMineCountOf(neighbors), draw)

\* if (!cell || !cell.revealed || cell.adjacentMines === 0) return state
chordGuard(st, coord, key, draw) ==
  IF ~Has(st.cells, key) \/ ~st.cells[key].revealed \/ st.cells[key].adjacentMines = 0
    THEN Out(st, <<>>)
    ELSE chordCounts(st, st.cells[key], neighborCells(st.cells, coord, 1), draw)

chordCell(st, coord, draw) == chordGuard(st, coord, toCellKey(coord), draw)

\* ------------------------------------------------------------- board view

\* The numbers of the view (offset, scale) are exact fractions n/d in lowest
\* terms; the rounding of IEEE doubles is left out.
Abs(a) == IF a < 0 THEN -a ELSE a

RECURSIVE GCD(_, _)
GCD(a, b) == IF b = 0 THEN a ELSE GCD(b, a % b)

Sign(a) == IF a < 0 THEN -1 ELSE 1

Rat(n, d) ==
  [n |-> Sign(d) * (n \div GCD(Abs(n), Abs(d))), d |-> Abs(d) \div GCD(Abs(n), Abs(d))]

RatAdd(a, b) == Rat(a.n * b.d + b.n * a.d, a.d * b.d)

RatSub(a, b) == Rat(a.n * b.d - b.n * a.d, a.d * b.d)

RatMul(a, b) == Rat(a.n * b.n, a.d * b.d)

RatDiv(a, b) == Rat(a.n * b.d, a.d * b.n)

RatLess(a, b) == a.n * b.d < b.n * a.d

\* Math.min, Math.max
RatMin(a, b) == IF RatLess(b, a) THEN b ELSE a

RatMax(a, b) == IF RatLess(a, b) THEN b ELSE a

Point(x, y) == [x |-> Rat(x, 1), y |-> Rat(y, 1)]

Size(width, height) == [width |-> width, height |-> height]

\* The useState values of BoardView after the first render; lastPos and
\* startPos are null (the empty sequence) or one position.  events counts
\* the resize, mouse and wheel events taken so far.
initialView ==
  [offset |-> Point(0, 0),
   scale |-> Rat(1, 1),
   isPanning |-> FALSE,
   isActuallyDragging |-> FALSE,
   lastPos |-> <<>>,
   startPos |-> <<>>,
   containerSize |-> Size(0, 0),
   events |-> 0]

\* The offset that puts cell (0,0) in the middle of the container:
\* containerSize.width / 2 - CELL_SIZE / 2, and the same for the height
initialOffset(containerSize) ==
  [x |-> RatSub(Rat(containerSize.width, 2), Rat(CELL_SIZE, 2)),
   y |-> RatSub(Rat(containerSize.height, 2), Rat(CELL_SIZE, 2))]

\* The body of the centring effect
centre(v) ==
  IF v.containerSize.width > 0 /\ v.containerSize.height > 0
    THEN [v EXCEPT !.offset = initialOffset(v.containerSize), !.scale = Rat(1, 1)]
    ELSE v

\* useEffect(..., [state.gameVersion, containerSize]): after a render the
\* effect runs when state.gameVersion is another value than at the render
\* before, or containerSize another object (every setContainerSize call
\* passes a new object).
centringEffect(v, versionBefore, versionAfter, containerSizeSet) ==
  IF versionBefore # versionAfter \/ containerSizeSet THEN centre(v) ELSE v

\* ---------------------------------------------------------------- reducer

initialState ==
  [cells |-> EmptyCells,
   score |-> 0,
   lives |-> INITIAL_LIVES,
   highScore |-> 0,
   nextLifeScoreThreshold |-> LIFE_BONUS_THRESHOLD,
   gameOver |-> FALSE,
   isLoaded |-> FALSE]

\* state.gameVersion as the view and the test read it: the value of the
\* property when the state object has it, undefined (the empty sequence)
\* when it does not.  No object the reducer builds has the property.
gameVersion(st) ==
  IF "gameVersion" \in DOMAIN st THEN <<st.gameVersion>> ELSE <<>>

\* ---------------------------------------------------------------- storage

\* String.prototype.charCodeAt for the characters of the texts that
\* JSON.stringify produces here: the UTF-16 code of each
CharCodeTable ==
  "\"" :> 34 @@ "," :> 44 @@ "-" :> 45 @@ "." :> 46 @@ "0" :> 48 @@
  "1" :> 49 @@ "2" :> 50 @@ "3" :> 51 @@ "4" :> 52 @@ "5" :> 53 @@ "6" :> 54 @@
  "7" :> 55 @@ "8" :> 56 @@ "9" :> 57 @@ ":" :> 58 @@ "A" :> 65 @@ "B" :> 66 @@
  "C" :> 67 @@ "D" :> 68 @@ "E" :> 69 @@ "F" :> 70 @@ "G" :> 71 @@ "H" :> 72 @@
  "I" :> 73 @@ "J" :> 74 @@ "K" :> 75 @@ "L" :> 76 @@ "M" :> 77 @@ "N" :> 78 @@
  "O" :> 79 @@ "P" :> 80 @@ "Q" :> 81 @@ "R" :> 82 @@ "S" :> 83 @@ "T" :> 84 @@
  "U" :> 85 @@ "V" :> 86 @@ "W" :> 87 @@ "X" :> 88 @@ "Y" :> 89 @@ "Z" :> 90 @@
  "[" :> 91 @@ "]" :> 93 @@ "a" :> 97 @@ "b" :> 98 @@ "c" :> 99 @@
  "d" :> 100 @@ "e" :> 101 @@ "f" :> 102 @@ "g" :> 103 @@ "h" :> 104 @@
  "i" :> 105 @@ "j" :> 106 @@ "k" :> 107 @@ "l" :> 108 @@ "m" :> 109 @@
  "n" :> 110 @@ "o" :> 111 @@ "p" :> 112 @@ "q" :> 113 @@ "r" :> 114 @@
  "s" :> 115 @@ "t" :> 116 @@ "u" :> 117 @@ "v" :> 118 @@ "w" :> 119 @@
  "x" :> 120 @@ "y" :> 121 @@ "z" :> 122 @@ "{" :> 123 @@ "}" :> 125

\* The item of window.localStorage under STORAGE_KEY is kept as what
\* JSON.parse makes of its text: json says whether the text parses, value is
\* the parsed record.  JSON.stringify followed by JSON.parse gives back a
\* record of numbers, booleans, strings and arrays as it was, without the
\* properties whose value is undefined.  The text itself is built where the
\* program reads its characters, in computeChecksum.

jsonBoolean(b) ==
  IF b THEN << "t", "r", "u", "e" >> ELSE << "f", "a", "l", "s", "e" >>

\* JSON.stringify of one SerializedCell:
\* {"x":..,"y":..,"isMine":..,"adjacentMines":..,"revealed":..,"flagged":..}
jsonCell(c) ==
  << "{", "\"", "x", "\"", ":" >>
    \o numberToString(c.x)
    \o << ",", "\"", "y", "\"", ":" >>
    \o numberToString(c.y)
    \o << ",", "\"", "i", "s", "M", "i", "n", "e", "\"", ":" >>
    \o jsonBoolean(c.isMine)
    \o << ",", "\"", "a", "d", "j", "a", "c", "e", "n", "t",
          "M", "i", "n", "e", "s", "\"", ":" >>
    \o numberToString(c.adjacentMines)
    \o << ",", "\"", "r", "e", "v", "e", "a", "l", "e", "d", "\"", ":" >>
    \o jsonBoolean(c.revealed)
    \o << ",", "\"", "f", "l", "a", "g", "g", "e", "d", "\"", ":" >>
    \o jsonBoolean(c.flagged)
    \o << "}" >>

\* JSON.stringify of a SerializedGameState whose checksum is undefined:
\* {"version":"..","score":..,"lives":..,"highScore":..,
\*  "nextLifeScoreThreshold":..,"gameOver":..,"cells":[..]}
\* as the sequence of the pieces of the text (the head, one piece per cell,
\* the end)
jsonStringify(data) ==
  << << "{", "\"", "v", "e", "r", "s", "i", "o", "n", "\"", ":", "\"" >>
       \o data.version
       \o << "\"", ",", "\"", "s", "c", "o", "r", "e", "\"", ":" >>
       \o numberToString(data.score)
       \o << ",", "\"", "l", "i", "v", "e", "s", "\"", ":" >>
       \o numberToString(data.lives)
       \o << ",", "\"", "h", "i", "g", "h", "S", "c", "o", "r", "e", "\"", ":" >>
       \o numberToString(data.highScore)
       \o << ",", "\"", "n", "e", "x", "t", "L", "i", "f", "e", "S", "c", "o", "r", "e",
             "T", "h", "r", "e", "s", "h", "o", "l", "d", "\"", ":" >>
       \o numberToString(data.nextLifeScoreThreshold)
       \o << ",", "\"", "g", "a", "m", "e", "O", "v", "e", "r", "\"", ":" >>
       \o jsonBoolean(data.gameOver)
       \o << ",", "\"", "c", "e", "l", "l", "s", "\"", ":", "[" >> >>
    \o [i \in 1..Len(data.cells) |->
          (IF i > 1 THEN << "," >> ELSE << >>) \o jsonCell(data.cells[i])]
    \o << << "]", "}" >> >>

\* hash = (hash * 31 + json.charCodeAt(i)) >>> 0; the unsigned 32-bit hash is
\* kept as its two 16-bit halves, hash = hi * 2^16 + lo
hashStep(hash, code) ==
  [hi |-> (hash.hi * 31 + ((hash.lo * 31 + code) \div 65536)) % 65536,
   lo |-> (hash.lo * 31 + code) % 65536]

\* for (let i = 0; i < json.length; i += 1) over the characters of one
\* piece; loop = [hash, i] are the variables of the loop
RECURSIVE hashChars(_, _)
hashChars(text, loop) ==
  IF loop.i > Len(text)
    THEN loop.hash
    ELSE hashChars(text, [hash |-> hashStep(loop.hash, CharCodeTable[text[loop.i]]),
                          i |-> loop.i + 1])

\* the same loop over the pieces of the text, in order
RECURSIVE hashPieces(_, _)
hashPieces(pieces, loop) ==
  IF loop.i > Len(pieces)
    THEN loop.hash
    ELSE hashPieces(pieces,
                    [hash |-> hashChars(pieces[loop.i], [hash |-> loop.hash, i |-> 1]),
                     i |-> loop.i + 1])

\* computeChecksum(data): let hash = 0, then the loop over JSON.stringify(data)
computeChecksum(data) ==
  hashPieces(jsonStringify(data), [hash |-> [hi |-> 0, lo |-> 0], i |-> 1])

\* { ...state, checksum: undefined } and const { checksum, ...rest } = parsed:
\* the record without a checksum that JSON.stringify writes
withoutChecksum(data) == [f \in DOMAIN data \ {"checksum"} |-> data[f]]

\* An item of localStorage: nothing stored, a text that does not parse, or
\* the text of a record
NoItem == << >>

BrokenItem == << [json |-> FALSE, value |-> << >>] >>

ItemOf(value) == << [json |-> TRUE, value |-> value] >>

\* saveGameState(state): the checksum of dataWithoutChecksum, then
\* payload = { ...state, version: SAVE_DATA_VERSION, checksum } is stored
saveGameState(data, version) ==
  ItemOf([f \in DOMAIN data \cup {"checksum"} |->
            IF f = "version" THEN version
            ELSE IF f = "checksum" THEN computeChecksum(withoutChecksum(data))
              ELSE data[f]])

\* Variant of loadGameState without the comparison of the versions.
loadGameStateAnyVersion(item, version) ==
  IF item = NoItem THEN << >>
  ELSE IF ~item[1].json THEN << >>
  ELSE IF item[1].value.checksum # computeChecksum(withoutChecksum(item[1].value))
    THEN << >>
    ELSE << item[1].value >>

\* loadGameState(): null (the empty sequence) or the parsed record
loadGameState(item, version) ==
  IF item = NoItem THEN << >>
  ELSE IF ~item[1].json THEN << >>
  ELSE IF item[1].value.version # version THEN << >>
  ELSE IF item[1].value.checksum # computeChecksum(withoutChecksum(item[1].value))
    THEN << >>
    ELSE << item[1].value >>

\* --------------------------------------------------------------- provider

\* Array.from(state.cells.values()) lists the cells in the order of their
\* insertion.  The order is not kept by the model's Cell Store: the cells are
\* listed in the order of their coordinates, row by row.  Saving and loading
\* see the same array, so the order does not change what they compare.
StoreOrder ==
  [i \in 1..(14 * 11) |-> Coord(((i - 1) % 14) - 5, ((i - 1) \div 14) - 5)]

\* ({ x: c.coord.x, y: c.coord.y, isMine: c.isMine, ... })
serializedCell(c) ==
  [x |-> c.coord.x, y |-> c.coord.y, isMine |-> c.isMine,
   adjacentMines |-> c.adjacentMines, revealed |-> c.revealed, flagged |-> c.flagged]

\* The coordinates of the stored cells, in the order of StoreOrder
StoredCoords(cells) ==
  SelectSeq(StoreOrder, LAMBDA c : toCellKey(c) \in DOMAIN cells)

\* Array.from(state.cells.values()).map(...)
cellsArray(cells) ==
  [i \in 1..Len(StoredCoords(cells)) |->
     serializedCell(cells[toCellKey(StoredCoords(cells)[i])])]

\* const serialized: SerializedGameState = { version: '', score: ..., cells: ... }
serialize(st) ==
  [version |-> << >>,
   score |-> st.score,
   lives |-> st.lives,
   highScore |-> st.highScore,
   nextLifeScoreThreshold |-> st.nextLifeScoreThreshold,
   gameOver |-> st.gameOver,
   cells |-> cellsArray(st.cells)]

\* for (const c of saved.cells) cells.set(toCellKey(coord), { coord, ... })
RECURSIVE cellsOf(_, _, _)
cellsOf(array, i, cells) ==
  IF i > Len(array)
    THEN cells
    ELSE cellsOf(array, i + 1,
                 MapSet(cells, toCellKey(Coord(array[i].x, array[i].y)),
                        [coord |-> Coord(array[i].x, array[i].y),
                         isMine |-> array[i].isMine,
                         adjacentMines |-> array[i].adjacentMines,
                         revealed |-> array[i].revealed,
                         flagged |-> array[i].flagged]))

\* Variant of loadFromStorage that leaves isLoaded false when nothing loads.
loadFromStorageNotLoaded(saved) ==
  IF saved = << >>
    THEN initialState
    ELSE [cells |-> cellsOf(saved[1].cells, 1, EmptyCells),
          score |-> saved[1].score,
          lives |-> saved[1].lives,
          highScore |-> saved[1].highScore,
          nextLifeScoreThreshold |-> saved[1].nextLifeScoreThreshold,
          gameOver |-> saved[1].gameOver,
          isLoaded |-> TRUE]

\* case 'LOAD_FROM_STORAGE' of the reducer, saved = action.payload
loadFromStorage(saved) ==
  IF saved = << >>
    THEN [initialState EXCEPT !.isLoaded = TRUE]
    ELSE [cells |-> cellsOf(saved[1].cells, 1, EmptyCells),
          score |-> saved[1].score,
          lives |-> saved[1].lives,
          highScore |-> saved[1].highScore,
          nextLifeScoreThreshold |-> saved[1].nextLifeScoreThreshold,
          gameOver |-> saved[1].gameOver,
          isLoaded |-> TRUE]

\* [state.isLoaded, state.score, state.cells.size, state.gameOver]
autoRevealDeps(st) ==
  << st.isLoaded, st.score, Cardinality(DOMAIN st.cells), st.gameOver >>

\* Variant of autoRevealEffect that looks at isLoaded and gameOver only.
autoRevealEffectAlways(st) ==
  IF ~st.isLoaded THEN << >>
  ELSE IF st.gameOver THEN << >>
  ELSE << Coord(0, 0) >>

\* The auto-reveal effect: the coordinates it dispatches REVEAL_CELL for
autoRevealEffect(st) ==
  IF ~st.isLoaded THEN << >>
  ELSE IF st.score > 0 \/ Cardinality(DOMAIN st.cells) > 0 \/ st.gameOver THEN << >>
  ELSE << Coord(0, 0) >>

\* Variant of autoSaveEffect that saves before the state is loaded.
autoSaveEffectUnloaded(st) == << serialize(st) >>

\* The auto-save effect: the records it calls saveGameState with
autoSaveEffect(st) ==
  IF ~st.isLoaded THEN << >> ELSE << serialize(st) >>

\* The values of SAVE_DATA_VERSION the model starts from: the empty string
\* and a string of one character.
SaveDataVersions == { << >>, << "1" >> }

\* What the provider has done: whether its mount effects have run, the
\* dependencies and the state of the last render whose effects have run,
\* the number of clicks, RESETs and reloads of the page, and the record of
\* the last call of saveGameState.
initialProvider ==
  [mounted |-> FALSE, deps |-> << >>, rendered |-> << >>,
   events |-> 0, saved |-> << >>]

\* The specifications that are not about the provider leave it unmounted,
\* with nothing stored.
NoProvider ==
  /\ localStorage = NoItem
  /\ provider = initialProvider
  /\ SAVE_DATA_VERSION = << >>

\* The coordinates the host dispatches TOGGLE_FLAG for: two cells of the safe
\* zone and the first random cell.
FlagCoords == { Coord(0, 0), Coord(1, 0), RandomOrder[1] }

\* The coordinates the host dispatches REVEAL_CELL for: those, and one cell
\* outside the window.
ClickCoords == FlagCoords \cup { Coord(3, 0) }

NoCoord == Coord(0, 0)

\* What the last step did: the operation, its coordinate, the state it was
\* applied to and the calls its chord loop issued.
Did(op, coord, user, pre, calls) ==
  [op |-> op, coord |-> coord, isUserInitiated |-> user, pre |-> pre, calls |-> calls]

Step(op, coord, user, out) ==
  /\ state' = out.state
  /\ last' = Did(op, coord, user, state, out.calls)
  /\ maxVisits' = maxVisits
  /\ view' = centringEffect(view, gameVersion(state), gameVersion(out.state), FALSE)
  /\ UNCHANGED <<localStorage, provider, SAVE_DATA_VERSION>>

Init ==
  /\ state = initialState
  /\ last = Did("init", NoCoord, FALSE, initialState, <<>>)
  /\ maxVisits = MAX_VISITS
  /\ view = initialView
  /\ NoProvider

\* case 'LOAD_FROM_STORAGE' with nothing stored (payload null), dispatched
\* once by the provider's mount effect
LoadFromStorage ==
  /\ ~state.isLoaded
  /\ Step("LOAD_FROM_STORAGE", NoCoord, FALSE,
          Out([initialState EXCEPT !.isLoaded = TRUE], <<>>))

\* Variant of Reset that starts the new game from initialState as it is.
ResetLosingHighScore ==
  /\ state.isLoaded
  /\ state.highScore < MaxResetHighScore
  /\ Step("RESET", NoCoord, FALSE, Out([initialState EXCEPT !.isLoaded = TRUE], <<>>))

\* case 'RESET'
Reset ==
  /\ state.isLoaded
  /\ state.highScore < MaxResetHighScore
  /\ Step("RESET", NoCoord, FALSE,
          Out([initialState EXCEPT !.highScore = state.highScore, !.isLoaded = TRUE],
              <<>>))

\* The cell at coord is stored, revealed and not a mine.
IsRevealedSafeAt(cells, coord) ==
  /\ Has(cells, toCellKey(coord))
  /\ cells[toCellKey(coord)].revealed
  /\ ~cells[toCellKey(coord)].isMine

\* case 'REVEAL_CELL': revealCellLogic(state, action.coord, defaultIsMineGenerator)
\* A reveal of a revealed non-mine cell is taken only while the score is below
\* MaxScore.
RevealCellAction ==
  /\ state.isLoaded
  /\ \E coord \in ClickCoords, draw \in DrawsFor(state.cells) :
       /\ state.score < MaxScore \/ ~IsRevealedSafeAt(state.cells, coord)
       /\ Step("REVEAL_CELL", coord, FALSE, revealCell(state, coord, draw, FALSE))

\* case 'TOGGLE_FLAG': toggleFlagLogic(state, action.coord, defaultIsMineGenerator)
ToggleFlagAction ==
  /\ state.isLoaded
  /\ \E coord \in FlagCoords, draw \in DrawsFor(state.cells) :
       Step("TOGGLE_FLAG", coord, FALSE, Out(toggleFlag(state, coord, draw), <<>>))

\* Variant of SetHighScore without the comparison.
SetHighScoreAlways ==
  /\ state.isLoaded
  /\ \E highScore \in 0..MaxResetHighScore :
       Step("SET_HIGH_SCORE", NoCoord, FALSE,
            Out([state EXCEPT !.highScore = highScore],
                << Call("SET_HIGH_SCORE", NoCoord, FALSE, highScore) >>))

\* case 'SET_HIGH_SCORE': if (action.highScore <= state.highScore) return state;
\* return { ...state, highScore: action.highScore }
SetHighScore ==
  /\ state.isLoaded
  /\ \E highScore \in 0..MaxResetHighScore :
       Step("SET_HIGH_SCORE", NoCoord, FALSE,
            Out(IF highScore <= state.highScore
                  THEN state
                  ELSE [state EXCEPT !.highScore = highScore],
                << Call("SET_HIGH_SCORE", NoCoord, FALSE, highScore) >>))

Next ==
  \/ LoadFromStorage
  \/ Reset
  \/ RevealCellAction
  \/ ToggleFlagAction
  \/ SetHighScore

Spec == Init /\ [][Next]_vars

\* revealCell(state, coord, gen, true): the engine's reveal called as a
\* user-initiated click, which chords on a revealed cell
RevealCellUser ==
  /\ state.isLoaded
  /\ \E coord \in ClickCoords, draw \in DrawsFor(state.cells) :
       /\ state.score < MaxScore \/ ~IsRevealedSafeAt(state.cells, coord)
       /\ Step("revealCell", coord, TRUE, revealCell(state, coord, draw, TRUE))

\* chordCell(state, coord, gen) called directly
ChordCellCall ==
  /\ state.isLoaded
  /\ \E coord \in ClickCoords, draw \in DrawsFor(state.cells) :
       Step("chordCell", coord, FALSE, chordCell(state, coord, draw))

\* calculateAdjacentMines(state.cells, coord) called directly: it reads the
\* store with cells.get and returns a number
CalculateAdjacentMinesCall ==
  /\ state.isLoaded
  /\ \E coord \in ClickCoords :
       Step("calculateAdjacentMines", coord, FALSE,
            Out(state, << Call("calculateAdjacentMines", coord, FALSE,
                              calculateAdjacentMines(state.cells, coord)) >>))

\* The engine with every entry point: the reducer's actions and the calls
\* that reach the chord operation.
NextEngine ==
  \/ LoadFromStorage
  \/ RevealCellAction
  \/ ToggleFlagAction
  \/ RevealCellUser
  \/ ChordCellCall
  \/ CalculateAdjacentMinesCall

EngineSpec == Init /\ [][NextEngine]_vars

\* The program with the cap of the flood-fill scaled down to 1..MaxCap.
InitCap ==
  /\ state = initialState
  /\ last = Did("init", NoCoord, FALSE, initialState, <<>>)
  /\ maxVisits \in 1..MaxCap
  /\ view = initialView
  /\ NoProvider

\* case 'REVEAL_CELL' when every draw of the oracle comes out "not a mine":
\* the board is blank without end and only the cap stops the flood-fill.
RevealCellAllClear ==
  /\ state.isLoaded
  /\ \E coord \in ClickCoords :
       /\ state.score < MaxScore \/ ~IsRevealedSafeAt(state.cells, coord)
       /\ Step("REVEAL_CELL", coord, FALSE, revealCell(state, coord, AllClear, FALSE))

NextCap ==
  \/ LoadFromStorage
  \/ RevealCellAllClear
  \/ ToggleFlagAction

CapSpec == InitCap /\ [][NextCap]_vars

\* The sizes the container takes and the positions of the mouse, relative
\* to the container.
ContainerSizes == { Size(64, 48), Size(100, 64) }

MousePositions == { [x |-> 0, y |-> 0], [x |-> 10, y |-> 20] }

\* An event handler of the view ran and the component rendered again.
ViewStep(op, v, containerSizeSet) ==
  /\ view' = [centringEffect(v, gameVersion(state), gameVersion(state), containerSizeSet)
               EXCEPT !.events = view.events + 1]
  /\ last' = Did(op, NoCoord, FALSE, state, <<>>)
  /\ UNCHANGED <<state, maxVisits, localStorage, provider, SAVE_DATA_VERSION>>

\* setContainerSize({ width, height }) of the layout effect at mount and of
\* the ResizeObserver callback
SetContainerSize ==
  /\ view.events < MaxViewEvents
  /\ \E size \in ContainerSizes :
       ViewStep("setContainerSize", [view EXCEPT !.containerSize = size], TRUE)

HandleMouseDown ==
  /\ view.events < MaxViewEvents
  /\ \E e \in MousePositions :
       ViewStep("handleMouseDown",
                [view EXCEPT !.isPanning = TRUE,
                             !.isActuallyDragging = FALSE,
                             !.lastPos = <<e>>,
                             !.startPos = <<e>>],
                FALSE)

\* distance > DRAG_THRESHOLD for the distance of e from startPos
BeyondThreshold(e, startPos) ==
  (e.x - startPos.x) * (e.x - startPos.x) + (e.y - startPos.y) * (e.y - startPos.y)
    > DRAG_THRESHOLD * DRAG_THRESHOLD

handleMouseMove(v, e) ==
  IF ~v.isPanning \/ v.lastPos = <<>>
    THEN v
    ELSE [v EXCEPT
            !.isActuallyDragging =
               IF v.startPos # <<>> /\ ~v.isActuallyDragging /\ BeyondThreshold(e, v.startPos[1])
                 THEN TRUE ELSE v.isActuallyDragging,
            !.offset = [x |-> RatAdd(v.offset.x, Rat(e.x - v.lastPos[1].x, 1)),
                        y |-> RatAdd(v.offset.y, Rat(e.y - v.lastPos[1].y, 1))],
            !.lastPos = <<e>>]

HandleMouseMove ==
  /\ view.events < MaxViewEvents
  /\ \E e \in MousePositions :
       ViewStep("handleMouseMove", handleMouseMove(view, e), FALSE)

\* After a drag the handler calls setIsDraggingBoard, which the context
\* value of GameProvider does not hold: the call throws and the set-state
\* calls after it are not reached.
handleMouseUpOrLeave(v) ==
  IF v.isActuallyDragging
    THEN v
    ELSE [v EXCEPT !.isPanning = FALSE,
                   !.isActuallyDragging = FALSE,
                   !.lastPos = <<>>,
                   !.startPos = <<>>]

HandleMouseUpOrLeave ==
  /\ view.events < MaxViewEvents
  /\ ViewStep("handleMouseUpOrLeave", handleMouseUpOrLeave(view), FALSE)

\* newScale = Math.min(2, Math.max(0.5, scale + delta))
newScale(scale, deltaYPositive) ==
  RatMin(Rat(2, 1),
         RatMax(Rat(1, 2),
                RatAdd(scale, IF deltaYPositive THEN Rat(-1, 10) ELSE Rat(1, 10))))

\* mouseX - (mouseX - prev.x) * ratio
zoomAbout(mouse, prev, ratio) ==
  RatSub(Rat(mouse, 1), RatMul(RatSub(Rat(mouse, 1), prev), ratio))

handleWheel(v, e, deltaYPositive) ==
  [v EXCEPT
     !.offset = [x |-> zoomAbout(e.x, v.offset.x,
                                 RatDiv(newScale(v.scale, deltaYPositive), v.scale)),
                 y |-> zoomAbout(e.y, v.offset.y,
                                 RatDiv(newScale(v.scale, deltaYPositive), v.scale))],
     !.scale = newScale(v.scale, deltaYPositive)]

HandleWheel ==
  /\ view.events < MaxViewEvents
  /\ \E e \in MousePositions, deltaYPositive \in BOOLEAN :
       ViewStep("handleWheel", handleWheel(view, e, deltaYPositive), FALSE)

\* The provider and the board view: the reducer's LOAD_FROM_STORAGE and
\* RESET, and the events of the view.
NextView ==
  \/ LoadFromStorage
  \/ Reset
  \/ SetContainerSize
  \/ HandleMouseDown
  \/ HandleMouseMove
  \/ HandleMouseUpOrLeave
  \/ HandleWheel

ViewSpec == Init /\ [][NextView]_vars

\* defaultIsMineGenerator(coord) called directly, with either outcome of
\* Math.random() < MINE_PROBABILITY; the outcome and the answer are logged.
OracleCoords == [x : -MaxOracle..MaxOracle, y : -MaxOracle..MaxOracle]

DefaultIsMineGeneratorCall ==
  /\ state.isLoaded
  /\ \E coord \in OracleCoords, random \in BOOLEAN :
       Step("defaultIsMineGenerator", coord, FALSE,
            Out(state,
                << Call("Math.random() < MINE_PROBABILITY", coord, FALSE, random),
                   Call("defaultIsMineGenerator", coord, FALSE,
                        defaultIsMineGenerator((coord :> random), coord)) >>))

NextOracle ==
  \/ LoadFromStorage
  \/ DefaultIsMineGeneratorCall

OracleSpec == Init /\ [][NextOracle]_vars

\* toCellKey applied to two coordinates and fromCellKey to the key of the
\* first; the three results are logged.  The functions are pure: a behaviour
\* applies them once.
CodecCoords == [x : -MaxCodec..MaxCodec, y : -MaxCodec..MaxCodec]

CodecCall ==
  /\ state.isLoaded
  /\ last.op # "toCellKey"
  /\ \E c1 \in CodecCoords, c2 \in CodecCoords :
       Step("toCellKey", c1, FALSE,
            Out(state,
                << Call("toCellKey", c1, FALSE, formatCellKey(c1)),
                   Call("toCellKey", c2, FALSE, formatCellKey(c2)),
                   Call("fromCellKey", formatCellKey(c1), FALSE,
                        fromCellKey(formatCellKey(c1))) >>))

NextCodec ==
  \/ LoadFromStorage
  \/ CodecCall

CodecSpec == Init /\ [][NextCodec]_vars

\* _revealArea(cells, startCoord, isMineGenerator) called on the store of
\* the state; the state keeps its store.
RevealAreaCall ==
  /\ state.isLoaded
  /\ \E coord \in ClickCoords, draw \in DrawsFor(state.cells) :
       Step("revealArea", coord, FALSE,
            Out(state, << Call("revealArea", coord, FALSE,
                               revealArea(state.cells, coord, draw)) >>))

NextFlood ==
  \/ LoadFromStorage
  \/ ToggleFlagAction
  \/ RevealAreaCall

\* The flood-fill applied to the stores that flags build.
FloodSpec == Init /\ [][NextFlood]_vars

\* ------------------------------------------------- provider's effects

\* The state of the first game: the fresh state after its first reveal when
\* no explored draw is a mine.
SampleState ==
  revealCell([initialState EXCEPT !.isLoaded = TRUE], Coord(0, 0),
             [c \in RandomCoords |-> FALSE], FALSE).state

\* A record whose checksum is the checksum of the rest of it.
checked(data) ==
  [f \in DOMAIN data \cup {"checksum"} |->
     IF f = "checksum" THEN computeChecksum(withoutChecksum(data)) ELSE data[f]]

\* The items the page finds in localStorage when it is first opened: nothing,
\* a text that is not JSON, a record of the first game whose checksum is
\* right, the same with another version and the same with another checksum.
StoredItems(version) ==
  { NoItem,
    BrokenItem,
    ItemOf(checked([serialize(SampleState) EXCEPT !.version = version])),
    ItemOf(checked([serialize(SampleState) EXCEPT !.version = << "0" >>])),
    ItemOf([checked([serialize(SampleState) EXCEPT !.version = version])
              EXCEPT !.checksum = [hi |-> 0, lo |-> 0]]) }

InitProvider ==
  /\ state = initialState
  /\ last = Did("init", NoCoord, FALSE, initialState, <<>>)
  /\ maxVisits = MAX_VISITS
  /\ view = initialView
  /\ SAVE_DATA_VERSION \in SaveDataVersions
  /\ localStorage \in StoredItems(SAVE_DATA_VERSION)
  /\ provider = initialProvider

\* The coordinates the player clicks in the provider's game: the first
\* random cell and a cell outside the window.
ProviderCoords == { RandomOrder[1], Coord(3, 0) }

\* dispatch({ type: 'REVEAL_CELL', coord }) for the coordinates an effect
\* dispatched, applied by the reducer
dispatchReveals(st, coords, draw) ==
  IF coords = << >> THEN Out(st, << >>) ELSE revealCell(st, coords[1], draw, FALSE)

\* saveGameState(serialized) for the records an effect saved
stored(item, saves, version) ==
  IF saves = << >> THEN item ELSE saveGameState(saves[1], version)

\* The calls of the effects of one render
EffectCalls(saves, reveals) ==
  [i \in 1..Len(saves) |-> Call("saveGameState", NoCoord, FALSE, saves[i])]
    \o [i \in 1..Len(reveals) |-> Call("REVEAL_CELL", reveals[i], FALSE, << >>)]

ProviderStep(op, coord, st, calls, item, prov) ==
  /\ state' = st
  /\ last' = Did(op, coord, FALSE, state, calls)
  /\ localStorage' = item
  /\ provider' = prov
  /\ UNCHANGED <<maxVisits, view, SAVE_DATA_VERSION>>

\* The draws an effect's dispatches consult: the oracle is asked only when
\* REVEAL_CELL is dispatched.
EffectDraws(reveals, cells) ==
  IF reveals = << >> THEN { [c \in RandomCoords |-> FALSE] } ELSE DrawsFor(cells)

\* The provider once the effects of the render with state st have run.
rendered(prov, st) ==
  [prov EXCEPT
     !.deps = autoRevealDeps(st),
     !.rendered = << st >>,
     !.saved = IF autoSaveEffect(st) = << >> THEN @ ELSE autoSaveEffect(st)]

\* The effects of the first render, in their order: the load effect reads
\* the stored game and dispatches LOAD_FROM_STORAGE, the auto-reveal and the
\* auto-save effect see the state of the first render; then the reducer
\* applies what was dispatched.
MountEffects ==
  /\ ~provider.mounted
  /\ LET saved == loadGameState(localStorage, SAVE_DATA_VERSION)
         reveals == autoRevealEffect(state)
         saves == autoSaveEffect(state)
     IN \E draw \in EffectDraws(reveals, state.cells) :
          ProviderStep(
            "mount", NoCoord,
            dispatchReveals(loadFromStorage(saved), reveals, draw).state,
            << Call("loadGameState", NoCoord, FALSE, saved) >>
              \o EffectCalls(saves, reveals),
            stored(localStorage, saves, SAVE_DATA_VERSION),
            [rendered(provider, state) EXCEPT !.mounted = TRUE])

\* The dispatches of the auto-reveal effect after a render with state st:
\* the effect runs when one of its dependencies has changed.
autoRevealRun(st, deps) ==
  IF autoRevealDeps(st) # deps THEN autoRevealEffect(st) ELSE << >>

\* The effects of a render after a change of the state: the auto-reveal
\* effect when its dependencies changed, then the auto-save effect; then the
\* reducer applies what was dispatched.
RunEffects ==
  /\ provider.mounted
  /\ provider.rendered # << state >>
  /\ LET reveals == autoRevealRun(state, provider.deps)
         saves == autoSaveEffect(state)
     IN \E draw \in EffectDraws(reveals, state.cells) :
          ProviderStep(
            "effects", NoCoord,
            dispatchReveals(state, reveals, draw).state,
            EffectCalls(saves, reveals),
            stored(localStorage, saves, SAVE_DATA_VERSION),
            rendered(provider, state))

\* The player acts once the effects of the last render have run.
Idle ==
  /\ provider.mounted
  /\ provider.rendered = << state >>
  /\ provider.events < MaxProviderEvents

\* revealCell(coord) of the context: dispatch({ type: 'REVEAL_CELL', coord })
DispatchRevealCell ==
  /\ Idle
  /\ \E coord \in ProviderCoords, draw \in DrawsFor(state.cells) :
       ProviderStep("REVEAL_CELL", coord, revealCell(state, coord, draw, FALSE).state,
                    << >>, localStorage, [provider EXCEPT !.events = @ + 1])

\* toggleFlag(coord) of the context: dispatch({ type: 'TOGGLE_FLAG', coord })
DispatchToggleFlag ==
  /\ Idle
  /\ \E draw \in DrawsFor(state.cells) :
       ProviderStep("TOGGLE_FLAG", RandomOrder[1],
                    toggleFlag(state, RandomOrder[1], draw), << >>, localStorage,
                    [provider EXCEPT !.events = @ + 1])

\* resetGame() of the context: dispatch({ type: 'RESET' })
DispatchReset ==
  /\ Idle
  /\ ProviderStep("RESET", NoCoord,
                  [initialState EXCEPT !.highScore = state.highScore, !.isLoaded = TRUE],
                  << >>, localStorage, [provider EXCEPT !.events = @ + 1])

\* The page is loaded again: the provider mounts anew with the initial
\* state; localStorage keeps its item.
Reload ==
  /\ provider.mounted
  /\ provider.events < MaxProviderEvents
  /\ ProviderStep("reload", NoCoord, initialState, << >>, localStorage,
                  [initialProvider EXCEPT
                     !.events = provider.events + 1,
                     !.saved = provider.saved])

NextProvider ==
  \/ MountEffects
  \/ RunEffects
  \/ DispatchRevealCell
  \/ DispatchToggleFlag
  \/ DispatchReset
  \/ Reload

ProviderSpec == InitProvider /\ [][NextProvider]_vars

\* A step of MountEffects and a step of RunEffects, by what they do to the
\* provider: each is possible exactly when its action is.
MountRan ==
  /\ ~provider.mounted
  /\ provider' = [rendered(provider, state) EXCEPT !.mounted = TRUE]

EffectsRan ==
  /\ provider.mounted
  /\ provider.rendered # << state >>
  /\ provider' = rendered(provider, state)

\* React runs the effects of every render it has committed.
FairProviderSpec ==
  ProviderSpec /\ WF_provider(MountRan) /\ WF_provider(EffectsRan)

\* ------------------------------------------------------------- properties

\* The state the last step was applied to, and the key of its coordinate.
pre == last.pre

key == toCellKey(last.coord)

\* The last step was a reveal, chord or toggleFlag call of the running game.
InGame == last.op \in {"REVEAL_CELL", "TOGGLE_FLAG", "revealCell", "chordCell"}

IsReveal == last.op \in {"REVEAL_CELL", "revealCell"}

\* The last step ran the chord operation on its coordinate.
IsChord ==
  \/ last.op = "chordCell"
  \/ /\ last.op = "revealCell"
     /\ last.isUserInitiated
     /\ ~pre.gameOver
     /\ Has(pre.cells, key)
     /\ pre.cells[key].revealed
     /\ ~pre.cells[key].flagged

WasRevealed(k) == Has(pre.cells, k) /\ pre.cells[k].revealed

WasFlagged(k) == Has(pre.cells, k) /\ pre.cells[k].flagged

\* The target of the last step was not revealed and not flagged before it.
TargetWasClosed == ~WasRevealed(key) /\ ~WasFlagged(key)

RevealedSafe(cells) == { k \in DOMAIN cells : cells[k].revealed /\ ~cells[k].isMine }

\* C1: mine stability.  Within a game, every cell of the store is still in
\* the store after any reveal, chord or toggleFlag call, with the isMine
\* value it had, whatever the oracle would answer if it were asked again.
C1_MineStability ==
  InGame =>
    \A k \in DOMAIN pre.cells :
      Has(state.cells, k) /\ state.cells[k].isMine = pre.cells[k].isMine

\* C1 witness: a flag was toggled on a stored mine, at a coordinate where the
\* oracle's next draw is "not a mine", and the cell is still a mine.
C1_Witness ==
  /\ last.op = "TOGGLE_FLAG"
  /\ last.coord \in RandomCoords
  /\ Has(pre.cells, key) /\ pre.cells[key].isMine
  /\ state.cells[key].flagged # pre.cells[key].flagged
  /\ state.cells[key].isMine

\* C2: score accounting.  Every REVEAL_CELL raises the score by exactly the
\* number of non-mine cells it reveals, and the score is the number of
\* revealed non-mine cells of the store.
C2_ScoreAccounting ==
  /\ last.op = "REVEAL_CELL" =>
       state.score - pre.score =
         Cardinality(RevealedSafe(state.cells) \ RevealedSafe(pre.cells))
  /\ state.score = Cardinality(RevealedSafe(state.cells))

\* C3: a REVEAL_CELL on a revealed cell leaves score, lives and gameOver as
\* they were and the cell revealed.
C3_RevealedRevealNoChange ==
  (last.op = "REVEAL_CELL" /\ WasRevealed(key)) =>
    /\ state.score = pre.score
    /\ state.lives = pre.lives
    /\ state.gameOver = pre.gameOver
    /\ state.cells[key].revealed

\* C4: a REVEAL_CELL on a revealed cell returns what the chord operation
\* returns for that state and coordinate.
C4_RevealedRevealIsChord ==
  (last.op = "REVEAL_CELL" /\ WasRevealed(key)) =>
    \E draw \in DrawsFor(pre.cells) : state = chordCell(pre, last.coord, draw).state

\* C5: monotonic reveal.  A cell that is revealed stays revealed after any
\* reveal, chord or toggleFlag call.
C5_MonotonicReveal ==
  InGame =>
    \A k \in DOMAIN pre.cells :
      pre.cells[k].revealed => (Has(state.cells, k) /\ state.cells[k].revealed)

\* C5 witness: toggleFlag was called on a revealed cell, which is still
\* revealed.
C5_Witness ==
  /\ last.op = "TOGGLE_FLAG"
  /\ WasRevealed(key)
  /\ state.cells[key].revealed

\* C6: game-over terminality.  Once gameOver is true, every reveal, chord
\* and toggleFlag call returns its input state.
C6_GameOverTerminal == (InGame /\ pre.gameOver) => state = pre

\* C6 witness: after the game was over, a reveal, a toggleFlag and a chord
\* were each called on a cell they would have changed before.
C6_Witness ==
  /\ pre.gameOver
  /\ state.gameOver
  /\ \/ IsReveal /\ TargetWasClosed
     \/ last.op = "TOGGLE_FLAG" /\ ~WasRevealed(key)
     \/ last.op = "chordCell" /\ WasRevealed(key) /\ pre.cells[key].adjacentMines > 0

\* The lives the last REVEAL_CELL granted: the change of lives, plus the life
\* the reveal of a mine took.
LivesGranted ==
  state.lives - pre.lives
    + (IF ~pre.gameOver /\ state.cells[key].isMine /\ ~state.cells[key].flagged
         THEN 1 ELSE 0)

\* The number of the values T, T + B, T + 2B, ... that are <= s1.
ThresholdsUpTo(T, s1) ==
  Cardinality({ k \in 0..s1 : T + k * LIFE_BONUS_THRESHOLD <= s1 })

\* C7: life-bonus correctness.  A REVEAL_CELL grants as many lives as there
\* are thresholds T, T + B, ... up to the new score, raises the threshold by
\* B for each, and the score is below the threshold in every state.
C7_LifeBonus ==
  /\ state.score < state.nextLifeScoreThreshold
  /\ last.op = "REVEAL_CELL" =>
       /\ LivesGranted = ThresholdsUpTo(pre.nextLifeScoreThreshold, state.score)
       /\ state.nextLifeScoreThreshold =
            pre.nextLifeScoreThreshold + LivesGranted * LIFE_BONUS_THRESHOLD

\* C7 witness: one REVEAL_CELL granted two lives or more.
C7_Witness ==
  /\ last.op = "REVEAL_CELL"
  /\ state.lives >= pre.lives + 2
  /\ state.nextLifeScoreThreshold >= pre.nextLifeScoreThreshold + 2 * LIFE_BONUS_THRESHOLD

\* The last step was a REVEAL_CELL of a mine that was neither revealed nor
\* flagged, in a game that was not over.
RevealedClosedMine ==
  /\ last.op = "REVEAL_CELL"
  /\ ~pre.gameOver
  /\ TargetWasClosed
  /\ state.cells[key].isMine

\* C8: the reveal of a closed mine reveals that cell and no other, takes one
\* life, leaves the score, and ends the game exactly when no life is left.
C8_MineReveal ==
  RevealedClosedMine =>
    /\ state.cells[key].revealed
    /\ state.lives = pre.lives - 1
    /\ state.score = pre.score
    /\ \A k \in DOMAIN state.cells :
         (k # key /\ state.cells[k].revealed) => WasRevealed(k)
    /\ state.gameOver <=> state.lives <= 0

\* C8 witness: the reveal of a closed mine took the last life.
C8_Witness == RevealedClosedMine /\ state.gameOver /\ state.lives = 0

\* C8 witness of the other outcome: a life was left and the game goes on.
C8_WitnessAlive == RevealedClosedMine /\ ~state.gameOver /\ state.lives > 0

\* The keys of the 8 neighbours of the last step's coordinate, in the order
\* the claim gives.
ClaimedOrder ==
  << <<-1, -1>>, <<0, -1>>, <<1, -1>>, <<-1, 0>>, <<1, 0>>, <<-1, 1>>, <<0, 1>>, <<1, 1>> >>

NeighbourCoord(j) == Coord(last.coord.x + ClaimedOrder[j][1], last.coord.y + ClaimedOrder[j][2])

NeighbourKey(j) == toCellKey(NeighbourCoord(j))

\* The chorded cell was revealed, numbered, and its number equals the flags
\* plus the revealed mines around it.
ChordAutoRevealCase ==
  /\ IsChord
  /\ WasRevealed(key)
  /\ pre.cells[key].adjacentMines > 0
  /\ pre.cells[key].adjacentMines =
       Cardinality({ j \in 1..8 : WasFlagged(NeighbourKey(j)) })
         + Cardinality({ j \in 1..8 :
             WasRevealed(NeighbourKey(j)) /\ pre.cells[NeighbourKey(j)].isMine })

\* C9: chord completeness.  After a chord in the auto-reveal case that ends
\* without gameOver, every neighbour is revealed or flagged: the flagged ones
\* are as they were and exactly the closed ones became revealed.
C9_ChordCompleteness ==
  (ChordAutoRevealCase /\ ~state.gameOver) =>
    \A j \in 1..8 :
      /\ Has(pre.cells, NeighbourKey(j))
      /\ Has(state.cells, NeighbourKey(j))
      /\ state.cells[NeighbourKey(j)].revealed \/ state.cells[NeighbourKey(j)].flagged
      /\ state.cells[NeighbourKey(j)].flagged = pre.cells[NeighbourKey(j)].flagged
      /\ state.cells[NeighbourKey(j)].revealed =
           (pre.cells[NeighbourKey(j)].revealed \/ ~pre.cells[NeighbourKey(j)].flagged)

\* C9 witness: such a chord revealed two neighbours or more.
C9_Witness ==
  /\ ChordAutoRevealCase
  /\ ~state.gameOver
  /\ Cardinality({ j \in 1..8 :
       ~WasRevealed(NeighbourKey(j)) /\ state.cells[NeighbourKey(j)].revealed }) >= 2

\* The place of a coordinate in the claimed order of the neighbours (0 when
\* it is no neighbour).
PlaceOf(coord) ==
  IF \E j \in 1..8 : NeighbourCoord(j) = coord
    THEN CHOOSE j \in 1..8 : NeighbourCoord(j) = coord
    ELSE 0

\* C10: chord abort.  The reveals of a chord are issued on neighbours in the
\* claimed order; no reveal is issued after one that returned gameOver, and
\* the chord returns the state that reveal returned.
C10_ChordAbort ==
  IsChord =>
    /\ \A i \in 1..Len(last.calls) : PlaceOf(last.calls[i].coord) > 0
    /\ \A i, j \in 1..Len(last.calls) :
         i < j => PlaceOf(last.calls[i].coord) < PlaceOf(last.calls[j].coord)
    /\ \A i \in 1..Len(last.calls) :
         (last.calls[i].fn = "revealCell" /\ last.calls[i].returned.gameOver) =>
           /\ i = Len(last.calls)
           /\ state = last.calls[i].returned

\* C10 witness: a chord was aborted by a reveal that ended the game while a
\* closed neighbour later in the order was left closed.
C10_Witness ==
  /\ IsChord
  /\ ~pre.gameOver
  /\ Len(last.calls) >= 2
  /\ last.calls[Len(last.calls)].returned.gameOver
  /\ \E j \in 1..8 :
       /\ j > PlaceOf(last.calls[Len(last.calls)].coord)
       /\ Has(pre.cells, NeighbourKey(j))
       /\ ~pre.cells[NeighbourKey(j)].revealed /\ ~pre.cells[NeighbourKey(j)].flagged
       /\ ~state.cells[NeighbourKey(j)].revealed

\* The last step ran the chord operation on a revealed, numbered cell.
ChordOnNumbered ==
  IsChord /\ WasRevealed(key) /\ pre.cells[key].adjacentMines > 0

\* The counts chord takes over the neighbours of its cell.
FlaggedAround == Cardinality({ j \in 1..8 : WasFlagged(NeighbourKey(j)) })

RevealedMinesAround ==
  Cardinality({ j \in 1..8 :
    WasRevealed(NeighbourKey(j)) /\ pre.cells[NeighbourKey(j)].isMine })

WasClosed(k) == Has(pre.cells, k) /\ ~pre.cells[k].revealed /\ ~pre.cells[k].flagged

ClosedAround == Cardinality({ j \in 1..8 : WasClosed(NeighbourKey(j)) })

\* The auto-reveal condition does not hold and the closed neighbours are as
\* many as the mines still to be found, and at least one.
ChordAutoFlagCase ==
  /\ ChordOnNumbered
  /\ pre.cells[key].adjacentMines # FlaggedAround + RevealedMinesAround
  /\ ClosedAround > 0
  /\ ClosedAround = pre.cells[key].adjacentMines - (FlaggedAround + RevealedMinesAround)

\* What the auto-flag does: every closed neighbour is flagged, no cell is
\* newly revealed, and score, lives, threshold and gameOver are unchanged.
AutoFlagEffect ==
  /\ \A j \in 1..8 :
       WasClosed(NeighbourKey(j)) =>
         state.cells[NeighbourKey(j)].flagged /\ ~state.cells[NeighbourKey(j)].revealed
  /\ \A k \in DOMAIN state.cells : state.cells[k].revealed => WasRevealed(k)
  /\ state.score = pre.score
  /\ state.lives = pre.lives
  /\ state.nextLifeScoreThreshold = pre.nextLifeScoreThreshold
  /\ state.gameOver = pre.gameOver

\* C11 as stated: in the auto-flag case chord flags every closed neighbour,
\* reveals no cell and leaves score, lives, threshold and gameOver unchanged.
C11_ChordAutoFlagAlways == ChordAutoFlagCase => AutoFlagEffect

\* C11: chord auto-flag, in a game that is not over.  In the auto-flag case
\* chord flags every closed neighbour, reveals no cell and leaves score,
\* lives, threshold and gameOver unchanged; after gameOver it flags nothing.
C11_ChordAutoFlag ==
  ChordAutoFlagCase =>
    IF pre.gameOver THEN state = pre ELSE AutoFlagEffect

\* C11 witness: a chord in a running game flagged two closed neighbours or
\* more.
C11_Witness ==
  /\ ChordAutoFlagCase
  /\ ~pre.gameOver
  /\ ClosedAround >= 2
  /\ \A j \in 1..8 : WasClosed(NeighbourKey(j)) => state.cells[NeighbourKey(j)].flagged

\* The cell chordCell was called on is absent, not revealed, or has no
\* adjacent mine.
ChordGuardCase ==
  \/ /\ last.op = "chordCell"
     /\ \/ ~Has(pre.cells, key)
        \/ ~pre.cells[key].revealed
        \/ pre.cells[key].adjacentMines = 0
  \/ IsChord /\ WasRevealed(key) /\ pre.cells[key].adjacentMines = 0

\* The neighbourhood is ambiguous: neither the auto-reveal condition nor the
\* auto-flag condition holds.
ChordAmbiguousCase ==
  /\ ChordOnNumbered
  /\ pre.cells[key].adjacentMines # FlaggedAround + RevealedMinesAround
  /\ ~(/\ ClosedAround > 0
       /\ ClosedAround = pre.cells[key].adjacentMines - (FlaggedAround + RevealedMinesAround))

\* C12: chord no-op.  Chord returns its input state when the cell is absent,
\* not revealed or has adjacentMines = 0, and when the neighbourhood is
\* ambiguous.
C12_ChordNoOp == (ChordGuardCase \/ ChordAmbiguousCase) => state = pre

\* C12 witness: in a running game chord was called on a numbered cell with
\* closed neighbours left whose number matches neither rule, and returned
\* its input.
C12_Witness ==
  /\ ChordAmbiguousCase
  /\ ~pre.gameOver
  /\ ClosedAround > 0
  /\ state = pre

\* C12 witness of the guard: chordCell was called on a stored cell that is
\* not revealed, in a running game.
C12_WitnessGuard ==
  /\ last.op = "chordCell"
  /\ ~pre.gameOver
  /\ Has(pre.cells, key) /\ ~pre.cells[key].revealed
  /\ state = pre

\* C13: a flag blocks reveal.  A reveal of a flagged cell leaves the cell
\* unrevealed and flagged and score, lives, highScore, threshold and gameOver
\* unchanged; and no reveal, flood-fill included, reveals a cell that was
\* flagged when the call began.
C13_FlagBlocksReveal ==
  /\ (IsReveal /\ WasFlagged(key)) =>
       /\ state.cells[key].flagged /\ ~state.cells[key].revealed
       /\ state.score = pre.score
       /\ state.lives = pre.lives
       /\ state.highScore = pre.highScore
       /\ state.nextLifeScoreThreshold = pre.nextLifeScoreThreshold
       /\ state.gameOver = pre.gameOver
  /\ (IsReveal \/ IsChord) =>
       \A k \in DOMAIN pre.cells :
         (pre.cells[k].flagged /\ ~pre.cells[k].revealed) =>
           (state.cells[k].flagged /\ ~state.cells[k].revealed)

\* C13 witness: in a running game a flood-fill from a blank cell opened
\* cells around a flagged neighbour of its start and left that one closed.
C13_Witness ==
  /\ IsReveal
  /\ ~pre.gameOver
  /\ TargetWasClosed
  /\ state.cells[key].revealed /\ state.cells[key].adjacentMines = 0
  /\ state.score >= pre.score + 2
  /\ \E j \in 1..8 :
       /\ WasFlagged(NeighbourKey(j))
       /\ ~state.cells[NeighbourKey(j)].revealed

\* C13 witness of the guard: a reveal was called on a flagged cell in a
\* running game.
C13_WitnessTarget ==
  /\ IsReveal
  /\ ~pre.gameOver
  /\ WasFlagged(key)
  /\ state.cells[key].flagged /\ ~state.cells[key].revealed

\* The last step was a TOGGLE_FLAG of a cell that was not revealed, in a game
\* that was not over.
ToggledClosedCell == last.op = "TOGGLE_FLAG" /\ ~pre.gameOver /\ ~WasRevealed(key)

\* C14: toggleFlag on an unrevealed cell of a running game flips the cell's
\* flag and changes nothing else: the scalar fields and every other cell are
\* as they were, the target keeps isMine, revealed and adjacentMines, and
\* the only cell that may be added to the store is the target.
C14_ToggleFlagFrame ==
  ToggledClosedCell =>
    /\ state.cells[key].flagged = ~WasFlagged(key)
    /\ ~state.cells[key].revealed
    /\ Has(pre.cells, key) =>
         /\ state.cells[key].isMine = pre.cells[key].isMine
         /\ state.cells[key].adjacentMines = pre.cells[key].adjacentMines
    /\ state.score = pre.score
    /\ state.lives = pre.lives
    /\ state.highScore = pre.highScore
    /\ state.nextLifeScoreThreshold = pre.nextLifeScoreThreshold
    /\ state.gameOver = pre.gameOver
    /\ DOMAIN state.cells = DOMAIN pre.cells \cup {key}
    /\ \A k \in DOMAIN pre.cells \ {key} : state.cells[k] = pre.cells[k]

\* C14 witness: a flag was cleared from a cell while other cells were
\* revealed.
C14_Witness ==
  /\ ToggledClosedCell
  /\ WasFlagged(key)
  /\ ~state.cells[key].flagged
  /\ pre.score > 0

\* C14 witness of the other direction: toggleFlag added its target to the
\* store, flagged.
C14_WitnessNew ==
  /\ ToggledClosedCell
  /\ ~Has(pre.cells, key)
  /\ state.cells[key].flagged

\* The cells the last step revealed.
NewlyRevealed == { k \in DOMAIN state.cells : state.cells[k].revealed /\ ~WasRevealed(k) }

\* C15: flood-fill cap.  One REVEAL_CELL reveals at most maxVisits cells
\* (MAX_VISITS in the program) and raises the score by at most that number,
\* also when every draw of the oracle is "not a mine" and the blank region
\* has no end; at the cap the reveal returns as any other reveal does.
C15_FloodFillCap ==
  last.op = "REVEAL_CELL" =>
    /\ Cardinality(NewlyRevealed) <= maxVisits
    /\ state.score - pre.score <= maxVisits
    /\ state.gameOver = pre.gameOver \/ state.lives <= 0
    /\ state.score < state.nextLifeScoreThreshold

\* C15 witness: a flood-fill from a blank cell stopped at the cap, with a
\* closed, unflagged neighbour of its start still to open.
C15_Witness ==
  /\ last.op = "REVEAL_CELL"
  /\ maxVisits >= 2
  /\ TargetWasClosed
  /\ state.cells[key].revealed /\ state.cells[key].adjacentMines = 0
  /\ Cardinality(NewlyRevealed) = maxVisits
  /\ state.score - pre.score = maxVisits
  /\ \E j \in 1..8 :
       /\ ~state.cells[NeighbourKey(j)].revealed
       /\ ~state.cells[NeighbourKey(j)].flagged

\* The last step was a REVEAL_CELL of a closed blank cell (no mine, no
\* adjacent mine) in a running game, and its flood-fill ended before the cap.
FloodCase ==
  /\ last.op = "REVEAL_CELL"
  /\ ~pre.gameOver
  /\ TargetWasClosed
  /\ ~state.cells[key].isMine
  /\ state.cells[key].adjacentMines = 0
  /\ state.score - pre.score < maxVisits

\* Every neighbour of the cell at key k is stored and revealed or flagged.
NeighboursClosedOff(k) ==
  \A i \in 1..Len(NEIGHBORS) :
    /\ Has(state.cells, toCellKey(Shift(state.cells[k].coord, NEIGHBORS[i])))
    /\ \/ state.cells[toCellKey(Shift(state.cells[k].coord, NEIGHBORS[i]))].revealed
       \/ state.cells[toCellKey(Shift(state.cells[k].coord, NEIGHBORS[i]))].flagged

\* C16: flood-fill closure.  After the reveal of a closed blank cell whose
\* flood-fill ends before the cap, every cell opened by the call that has no
\* adjacent mine has all 8 neighbours revealed or flagged; every unflagged
\* neighbour of the start is revealed, and the score grew by more than 1 when
\* a neighbour of the start was neither revealed nor flagged.
C16_FloodFillClosure ==
  FloodCase =>
    /\ \A k \in NewlyRevealed :
         state.cells[k].adjacentMines = 0 => NeighboursClosedOff(k)
    /\ \A j \in 1..8 :
         ~state.cells[NeighbourKey(j)].flagged => state.cells[NeighbourKey(j)].revealed
    /\ (\E j \in 1..8 : ~WasRevealed(NeighbourKey(j)) /\ ~WasFlagged(NeighbourKey(j)))
         => state.score > pre.score + 1

\* C16 witness: a flood-fill opened a second blank cell next to its start
\* and went around a flagged neighbour.
C16_Witness ==
  /\ FloodCase
  /\ \E k \in NewlyRevealed : k # key /\ state.cells[k].adjacentMines = 0
  /\ \E j \in 1..8 : WasFlagged(NeighbourKey(j))
  /\ state.score > pre.score + 1

\* The stored mines at distance 1 of coord.
StoredMinesAround(cells, coord) ==
  { k \in DOMAIN cells :
      /\ cells[k].isMine
      /\ cells[k].coord # coord
      /\ cells[k].coord.x - coord.x \in -1..1
      /\ cells[k].coord.y - coord.y \in -1..1 }

\* C18: calculateAdjacentMines leaves the store as it is and returns the
\* number of neighbours that are stored with isMine = true; a neighbour that
\* is not stored counts as no mine and is not created.
C18_AdjacencyReadsOnly ==
  last.op = "calculateAdjacentMines" =>
    /\ state = pre
    /\ last.calls[1].returned = Cardinality(StoredMinesAround(pre.cells, last.coord))

\* C18 witness: the count was taken at a cell with a stored mine next to it
\* and with a neighbour that is not stored.
C18_Witness ==
  /\ last.op = "calculateAdjacentMines"
  /\ last.calls[1].returned >= 1
  /\ \E j \in 1..8 : ~Has(pre.cells, NeighbourKey(j))
  /\ \A j \in 1..8 : Has(pre.cells, NeighbourKey(j)) = Has(state.cells, NeighbourKey(j))

\* C19: RESET yields a fresh game from any state, a game-over state
\* included: empty store, score 0, lives INITIAL_LIVES, threshold
\* LIFE_BONUS_THRESHOLD, gameOver false, isLoaded true, and the highScore of
\* the state before.
C19_ResetFresh ==
  last.op = "RESET" =>
    /\ DOMAIN state.cells = {}
    /\ state.score = 0
    /\ state.lives = INITIAL_LIVES
    /\ state.nextLifeScoreThreshold = LIFE_BONUS_THRESHOLD
    /\ ~state.gameOver
    /\ state.isLoaded
    /\ state.highScore = pre.highScore

\* C19 witness: RESET was dispatched in a game-over state with cells in the
\* store and a high score above 0.
C19_Witness ==
  /\ last.op = "RESET"
  /\ pre.gameOver
  /\ DOMAIN pre.cells # {}
  /\ pre.highScore > 0
  /\ state.highScore = pre.highScore

\* C20: highScore is a running maximum.  highScore >= score in every state,
\* and no REVEAL_CELL, TOGGLE_FLAG, RESET or SET_HIGH_SCORE lowers highScore.
C20_HighScoreRunningMax ==
  /\ state.highScore >= state.score
  /\ last.op \in {"REVEAL_CELL", "TOGGLE_FLAG", "RESET", "SET_HIGH_SCORE"} =>
       state.highScore >= pre.highScore

\* C20 witness: a SET_HIGH_SCORE below the high score was dispatched and
\* left it, with the score above 0 and below the high score.
C20_Witness ==
  /\ last.op = "SET_HIGH_SCORE"
  /\ last.calls[1].returned < pre.highScore
  /\ state.highScore = pre.highScore
  /\ state.score < state.highScore
  /\ state.score > 0

\* C21: after LOAD_FROM_STORAGE the state's gameVersion is 1, and every
\* RESET (resetGame) raises gameVersion by exactly 1.
C21_GameVersion ==
  /\ last.op = "LOAD_FROM_STORAGE" => gameVersion(state) = <<1>>
  /\ last.op = "RESET" =>
       /\ gameVersion(pre) # <<>>
       /\ gameVersion(state) = <<gameVersion(pre)[1] + 1>>

\* C22: after resetGame (RESET) the view's offset is the one that centres
\* cell (0,0) in the container and its scale is 1, whatever pan and zoom
\* came before.
C22_ViewReset ==
  (last.op = "RESET" /\ view.containerSize.width > 0 /\ view.containerSize.height > 0) =>
    /\ view.offset = initialOffset(view.containerSize)
    /\ view.scale = Rat(1, 1)

\* The 9 coordinates around the origin.
SafeZoneCoords == { Coord(x, y) : x \in {-1, 0, 1}, y \in {-1, 0, 1} }

\* C23: the default oracle answers "no mine" at each of the 9 coordinates
\* with |x| <= 1 and |y| <= 1 whatever the random draw is; at every other
\* coordinate its answer is the random draw, true or false.
C23_SafeZone ==
  last.op = "defaultIsMineGenerator" =>
    /\ last.coord \in SafeZoneCoords => last.calls[2].returned = FALSE
    /\ last.coord \notin SafeZoneCoords => last.calls[2].returned = last.calls[1].returned

\* C23 witness: the oracle was asked at a corner of the safe zone with the
\* random draw "mine" and answered "no mine".
C23_Witness ==
  /\ last.op = "defaultIsMineGenerator"
  /\ last.coord = Coord(-1, 1)
  /\ last.calls[1].returned = TRUE
  /\ last.calls[2].returned = FALSE

\* C23 witnesses of the two answers outside the zone, right next to it.
C23_WitnessMine ==
  /\ last.op = "defaultIsMineGenerator"
  /\ last.coord = Coord(2, 0)
  /\ last.calls[2].returned = TRUE

C23_WitnessClear ==
  /\ last.op = "defaultIsMineGenerator"
  /\ last.coord = Coord(0, -2)
  /\ last.calls[2].returned = FALSE

\* The keys the last step added to the store.
Created == DOMAIN state.cells \ DOMAIN pre.cells

\* C24: the Cell Store never shrinks during a game, and a created cell
\* starts closed.  After any reveal, chord or toggleFlag call every key of
\* the store before is a key of the store after; a cell the call created is
\* not revealed, not flagged and has adjacentMines = 0, unless the call
\* itself revealed it (it is then not flagged) or was the toggleFlag at
\* that cell (it is then flagged, not revealed, with adjacentMines = 0).
C24_StoreGrows ==
  InGame =>
    /\ DOMAIN pre.cells \subseteq DOMAIN state.cells
    /\ \A k \in Created :
         \/ /\ ~state.cells[k].revealed
            /\ ~state.cells[k].flagged
            /\ state.cells[k].adjacentMines = 0
         \/ /\ IsReveal \/ IsChord
            /\ state.cells[k].revealed
            /\ ~state.cells[k].flagged
         \/ /\ last.op = "TOGGLE_FLAG"
            /\ k = key
            /\ state.cells[k].flagged
            /\ ~state.cells[k].revealed
            /\ state.cells[k].adjacentMines = 0

\* C24 witness: a reveal on a store that held cells created a cell it
\* revealed and a cell it left closed.
C24_Witness ==
  /\ IsReveal
  /\ DOMAIN pre.cells # {}
  /\ \E k \in Created : state.cells[k].revealed
  /\ \E k \in Created : ~state.cells[k].revealed /\ state.cells[k].adjacentMines = 0

\* The state the i-th call of the last chord was applied to, and the key of
\* its coordinate.
CallInput(i) == IF i = 1 THEN pre ELSE last.calls[i - 1].returned

CallKey(i) == toCellKey(last.calls[i].coord)

\* The i-th call of the last chord was a reveal of a neighbour that was
\* already revealed when the call was made.
RevealOfRevealed(i) ==
  /\ last.calls[i].fn = "revealCell"
  /\ Has(CallInput(i).cells, CallKey(i))
  /\ CallInput(i).cells[CallKey(i)].revealed

\* C25: chord is a bounded composition.  A chord issues at most 8 calls,
\* each a reveal or a toggleFlag and none a chord, every one with
\* isUserInitiated = false; a reveal it issues on a neighbour that is already
\* revealed takes the non-chording path: it leaves the store as it is and
\* counts the cell once more when it is numbered.
C25_ChordBounded ==
  IsChord =>
    /\ Len(last.calls) <= 8
    /\ \A i \in 1..Len(last.calls) :
         /\ last.calls[i].fn \in {"revealCell", "toggleFlag"}
         /\ ~last.calls[i].isUserInitiated
         /\ RevealOfRevealed(i) =>
              /\ last.calls[i].returned.cells = CallInput(i).cells
              /\ last.calls[i].returned.gameOver = CallInput(i).gameOver
              /\ last.calls[i].returned.score =
                   CallInput(i).score
                     + (IF CallInput(i).cells[CallKey(i)].adjacentMines > 0 THEN 1 ELSE 0)

\* C25 witness: a chord revealed a neighbour that an earlier reveal of the
\* same chord had opened, a numbered cell, and went on.
C25_Witness ==
  /\ IsChord
  /\ \E i \in 1..Len(last.calls) :
       /\ i < Len(last.calls)
       /\ RevealOfRevealed(i)
       /\ CallInput(i).cells[CallKey(i)].adjacentMines > 0
       /\ ~WasRevealed(CallKey(i))

\* C26: the codec is a bijection on integer coordinates.  fromCellKey gives
\* back the coordinate toCellKey was applied to, negative components
\* included, and toCellKey gives two different coordinates two different
\* keys.
C26_CodecBijection ==
  last.op = "toCellKey" =>
    /\ last.calls[3].returned = last.calls[1].coord
    /\ last.calls[1].coord # last.calls[2].coord =>
         last.calls[1].returned # last.calls[2].returned

\* C26 witness: a coordinate with a negative component of two digits came
\* back from its key, next to a coordinate with the same digits.
C26_Witness ==
  /\ last.op = "toCellKey"
  /\ last.calls[1].coord = Coord(-10, 1)
  /\ last.calls[2].coord = Coord(10, -1)
  /\ last.calls[1].returned = <<"-", "1", "0", ",", "1">>
  /\ last.calls[3].returned = Coord(-10, 1)

\* C27: adjacency accuracy.  In every state each revealed cell has all 8
\* neighbours in the store, and its adjacentMines is the number of those
\* neighbours that are mines.
C27_AdjacencyAccuracy ==
  \A k \in DOMAIN state.cells :
    state.cells[k].revealed =>
      /\ \A i \in 1..Len(NEIGHBORS) :
           Has(state.cells, toCellKey(Shift(state.cells[k].coord, NEIGHBORS[i])))
      /\ state.cells[k].adjacentMines =
           Cardinality(StoredMinesAround(state.cells, state.cells[k].coord))

\* C27 witness: a flood-fill opened a cell, not its start, that has exactly
\* one mine among its neighbours and shows 1.
C27_Witness ==
  /\ IsReveal
  /\ \E k \in NewlyRevealed :
       /\ k # key
       /\ ~state.cells[k].isMine
       /\ state.cells[k].adjacentMines = 1
       /\ Cardinality(StoredMinesAround(state.cells, state.cells[k].coord)) = 1

\* C28: no cell is both revealed and flagged, and the flag of a revealed
\* cell never changes: after any reveal, chord or toggleFlag call a cell that
\* was revealed has the flagged value it had, toggleFlag on a revealed cell
\* included, and no toggleFlag a chord issues is applied to a revealed cell.
C28_RevealedNotFlagged ==
  /\ \A k \in DOMAIN state.cells : ~(state.cells[k].revealed /\ state.cells[k].flagged)
  /\ InGame =>
       \A k \in DOMAIN pre.cells :
         pre.cells[k].revealed => state.cells[k].flagged = pre.cells[k].flagged
  /\ IsChord =>
       \A i \in 1..Len(last.calls) :
         last.calls[i].fn = "toggleFlag" =>
           /\ Has(CallInput(i).cells, CallKey(i))
           /\ ~CallInput(i).cells[CallKey(i)].revealed

\* C28 witness: in a running game with a flag on another cell, toggleFlag
\* was called on a revealed cell and left it without a flag.
C28_Witness ==
  /\ last.op = "TOGGLE_FLAG"
  /\ ~pre.gameOver
  /\ WasRevealed(key)
  /\ ~state.cells[key].flagged
  /\ \E k \in DOMAIN state.cells : state.cells[k].flagged

\* C28 witness of the chord: an auto-flag flagged a closed neighbour next to
\* revealed ones.
C28_WitnessChord ==
  /\ IsChord
  /\ ~pre.gameOver
  /\ \E i \in 1..Len(last.calls) :
       /\ last.calls[i].fn = "toggleFlag"
       /\ state.cells[CallKey(i)].flagged
       /\ ~state.cells[CallKey(i)].revealed

\* The last step was the REVEAL_CELL that ended the game.
EndedGame == last.op = "REVEAL_CELL" /\ ~pre.gameOver /\ state.gameOver

\* C29: in every state reached by REVEAL_CELL, TOGGLE_FLAG and RESET lives
\* is not negative and gameOver is true exactly when lives <= 0; the call
\* that ends the game takes the last life and grants none: the threshold is
\* as it was.
C29_LivesAndGameOver ==
  /\ state.lives >= 0
  /\ state.gameOver <=> state.lives <= 0
  /\ EndedGame =>
       /\ state.lives = pre.lives - 1
       /\ state.nextLifeScoreThreshold = pre.nextLifeScoreThreshold

\* C29 witness: a REVEAL_CELL ended a game in which a life bonus had been
\* granted before and the score was one short of the next threshold.
C29_Witness ==
  /\ EndedGame
  /\ state.lives = 0
  /\ pre.nextLifeScoreThreshold > LIFE_BONUS_THRESHOLD
  /\ pre.score = pre.nextLifeScoreThreshold - 1

\* The last step was a reveal that ran the reveal transition itself (it did
\* not hand over to chord), and its target is not a mine.
RevealOfSafeTarget ==
  /\ IsReveal
  /\ ~IsChord
  /\ Has(state.cells, key)
  /\ ~state.cells[key].isMine

\* The cells the i-th call of the last chord revealed.
RevealedByCall(i) ==
  { k \in DOMAIN last.calls[i].returned.cells :
      /\ last.calls[i].returned.cells[k].revealed
      /\ ~(Has(CallInput(i).cells, k) /\ CallInput(i).cells[k].revealed) }

\* C30: the flood-fill never reveals a mine.  In a reveal whose target is
\* not a mine every cell that becomes revealed has isMine = false and lives
\* does not go down; this holds of a reveal called on its own and of every
\* reveal a chord issues (a mine is revealed only as the target of a reveal).
C30_NoMineInFloodFill ==
  /\ RevealOfSafeTarget =>
       /\ \A k \in NewlyRevealed : ~state.cells[k].isMine
       /\ state.lives >= pre.lives
  /\ IsChord =>
       \A i \in 1..Len(last.calls) :
         (/\ last.calls[i].fn = "revealCell"
          /\ ~last.calls[i].returned.cells[CallKey(i)].isMine) =>
           /\ \A k \in RevealedByCall(i) : ~last.calls[i].returned.cells[k].isMine
           /\ last.calls[i].returned.lives >= CallInput(i).lives

\* C30 witness: a flood-fill from a blank cell opened three cells or more
\* and stopped at a numbered cell, with a mine in the store next to it.
C30_Witness ==
  /\ RevealOfSafeTarget
  /\ ~pre.gameOver
  /\ state.cells[key].adjacentMines = 0
  /\ Cardinality(NewlyRevealed) >= 3
  /\ \E k \in NewlyRevealed :
       /\ state.cells[k].adjacentMines > 0
       /\ StoredMinesAround(state.cells, state.cells[k].coord) # {}
  /\ state.lives >= pre.lives

\* C30 witness of the chord: a reveal issued by a chord on a blank neighbour
\* opened two cells or more.
C30_WitnessChord ==
  /\ IsChord
  /\ \E i \in 1..Len(last.calls) :
       /\ last.calls[i].fn = "revealCell"
       /\ ~last.calls[i].returned.cells[CallKey(i)].isMine
       /\ Cardinality(RevealedByCall(i)) >= 2

\* Every flagged neighbour of the chorded cell is a mine.
FlagsCorrect ==
  \A j \in 1..8 : WasFlagged(NeighbourKey(j)) => pre.cells[NeighbourKey(j)].isMine

\* C31: chord is safe under correct flags.  When every flagged neighbour of
\* the chorded cell is a mine, whatever reveals the chord issues reveal no
\* mine, take no life and leave gameOver as it was, and whatever flags it
\* puts are on mines.
C31_ChordSafe ==
  (IsChord /\ FlagsCorrect) =>
    /\ \A k \in NewlyRevealed : ~state.cells[k].isMine
    /\ state.lives >= pre.lives
    /\ state.gameOver = pre.gameOver
    /\ \A k \in DOMAIN state.cells :
         (state.cells[k].flagged /\ ~WasFlagged(k)) => state.cells[k].isMine

\* C31 witness: in a running game a chord with a flag on the one mine around
\* its cell revealed the closed neighbours left.
C31_Witness ==
  /\ ChordAutoRevealCase
  /\ Len(last.calls) >= 1
  /\ FlagsCorrect
  /\ ~pre.gameOver
  /\ FlaggedAround >= 1
  /\ NewlyRevealed # {}
  /\ state.lives >= pre.lives

\* C31 witness of the auto-flag: a chord flagged closed neighbours, every
\* flag around the cell being on a mine.
C31_WitnessFlag ==
  /\ ChordAutoFlagCase
  /\ FlagsCorrect
  /\ ~pre.gameOver
  /\ \E k \in DOMAIN state.cells : state.cells[k].flagged /\ ~WasFlagged(k)

\* ------------------------------------------------- storage and provider

\* What loadGameState returned to the load effect of the last mount.
Loaded == last.calls[1].returned

\* The fields of a saved record that make the game.
GameOf(data) ==
  [score |-> data.score,
   lives |-> data.lives,
   highScore |-> data.highScore,
   nextLifeScoreThreshold |-> data.nextLifeScoreThreshold,
   gameOver |-> data.gameOver,
   cells |-> data.cells]

\* C32: when the provider mounts after its auto-save has saved a game,
\* loadGameState returns a record with the score, lives, highScore,
\* nextLifeScoreThreshold, gameOver and cells of the last saved one, and
\* LOAD_FROM_STORAGE makes it the state.
C32_SaveLoadRoundTrip ==
  (last.op = "mount" /\ provider.saved # << >>) =>
    /\ Loaded # << >>
    /\ GameOf(Loaded[1]) = GameOf(provider.saved[1])
    /\ serialize(state) = provider.saved[1]
    /\ state.isLoaded

\* The round trip with SAVE_DATA_VERSION the empty string.
C32_EmptyVersionRoundTrip ==
  (last.op = "mount" /\ provider.saved # << >> /\ SAVE_DATA_VERSION = << >>) =>
    /\ Loaded # << >>
    /\ GameOf(Loaded[1]) = GameOf(provider.saved[1])
    /\ serialize(state) = provider.saved[1]
    /\ state.isLoaded

C32_EmptyVersionWitness ==
  /\ last.op = "mount"
  /\ provider.saved # << >>
  /\ SAVE_DATA_VERSION = << >>
  /\ state.score >= 9

\* With any other SAVE_DATA_VERSION nothing the provider saved loads.
C32_OtherVersionNeverLoads ==
  (last.op = "mount" /\ provider.saved # << >> /\ SAVE_DATA_VERSION # << >>) =>
    /\ Loaded = << >>
    /\ state = [initialState EXCEPT !.isLoaded = TRUE]

C32_OtherVersionWitness ==
  /\ last.op = "mount"
  /\ provider.saved # << >>
  /\ provider.saved[1].score >= 9
  /\ SAVE_DATA_VERSION # << >>

\* The stored item is one loadGameState gives up on.
NothingStored(item) == item = NoItem

NotJson(item) == item # NoItem /\ ~item[1].json

VersionDiffers(item, version) ==
  /\ item # NoItem
  /\ item[1].json
  /\ item[1].value.version # version

ChecksumDiffers(item) ==
  /\ item # NoItem
  /\ item[1].json
  /\ item[1].value.checksum # computeChecksum(withoutChecksum(item[1].value))

\* C33: loadGameState returns null when nothing is stored, when the stored
\* text is not JSON, when the stored version is not SAVE_DATA_VERSION and when
\* the stored checksum is not the checksum of the rest of the record; the
\* reducer then starts from the initial state with isLoaded true.
C33_LoadNull ==
  (/\ last.op = "mount"
   /\ \/ NothingStored(localStorage)
      \/ NotJson(localStorage)
      \/ VersionDiffers(localStorage, SAVE_DATA_VERSION)
      \/ ChecksumDiffers(localStorage)) =>
    /\ Loaded = << >>
    /\ state = [initialState EXCEPT !.isLoaded = TRUE]

C33_Witness ==
  /\ last.op = "mount"
  /\ VersionDiffers(localStorage, SAVE_DATA_VERSION)
  /\ ~ChecksumDiffers(localStorage)
  /\ Loaded = << >>
  /\ state.isLoaded

C33_WitnessNothing ==
  last.op = "mount" /\ NothingStored(localStorage) /\ state.isLoaded

C33_WitnessNotJson ==
  last.op = "mount" /\ NotJson(localStorage) /\ state.isLoaded

C33_WitnessChecksum ==
  /\ last.op = "mount"
  /\ ChecksumDiffers(localStorage)
  /\ ~VersionDiffers(localStorage, SAVE_DATA_VERSION)
  /\ state.isLoaded

\* A stored record that passes both tests is loaded.
C33_WitnessLoaded ==
  /\ last.op = "mount"
  /\ Loaded # << >>
  /\ state.score > 0

\* C34: saveGameState is called, and the stored item changes, only in a
\* step taken from a state whose isLoaded is true.
C34_NoSaveBeforeLoad ==
  [][(\/ localStorage' # localStorage
      \/ \E i \in DOMAIN last'.calls : last'.calls[i].fn = "saveGameState")
       => state.isLoaded]_vars

\* The stored game was read, then the first save replaced it.
C34_Witness ==
  /\ last.op = "effects"
  /\ \E i \in DOMAIN last.calls : last.calls[i].fn = "saveGameState"
  /\ pre.isLoaded
  /\ provider.events = 0
  /\ localStorage = saveGameState(serialize(pre), SAVE_DATA_VERSION)

\* The state of a fresh game: loaded, nothing stored, no score, not over.
Fresh(st) ==
  /\ st.isLoaded
  /\ st.cells = EmptyCells
  /\ st.score = 0
  /\ ~st.gameOver

\* The effects of the last step dispatched REVEAL_CELL.
AutoRevealed ==
  /\ last.op \in {"mount", "effects"}
  /\ \E i \in DOMAIN last.calls : last.calls[i].fn = "REVEAL_CELL"

OriginRevealed ==
  /\ Has(state.cells, toCellKey(Coord(0, 0)))
  /\ state.cells[toCellKey(Coord(0, 0))].revealed

\* The effects that ran on a fresh game dispatched one REVEAL_CELL of (0,0)
\* and the cell is revealed; they dispatched none on any other state.
AutoRevealOnFresh ==
  /\ (last.op = "effects" /\ Fresh(pre)) =>
       /\ \E i \in DOMAIN last.calls :
            /\ last.calls[i].fn = "REVEAL_CELL"
            /\ last.calls[i].coord = Coord(0, 0)
            /\ \A j \in DOMAIN last.calls :
                 last.calls[j].fn = "REVEAL_CELL" => j = i
       /\ OriginRevealed
  /\ AutoRevealed => (Fresh(pre) /\ state.cells # EmptyCells)

\* C35: the effects that run on a fresh game dispatch one REVEAL_CELL of
\* (0,0), which reveals that cell and fills the Cell Store; no effect
\* dispatches it on a state that is not fresh; and a fresh game leads to a
\* state in which (0,0) is revealed.
C35_AutoReveal ==
  /\ []AutoRevealOnFresh
  /\ (Fresh(state) ~> OriginRevealed)

\* The game after a RESET was revealed at (0,0) by the effect.
C35_Witness ==
  /\ AutoRevealed
  /\ Fresh(pre)
  /\ provider.events >= 1
  /\ provider.mounted
  /\ OriginRevealed

\* C36: the REVEAL_CELL of (0,0) that the effect dispatches on a fresh game
\* takes no life, reveals the nine cells with |x| <= 1 and |y| <= 1 and
\* brings the score to 9 or more; the score is 9 or more whenever the player
\* can act.
C36_FirstReveal ==
  /\ AutoRevealed =>
       /\ state.lives >= pre.lives
       /\ ~state.gameOver
       /\ \A c \in SafeZoneCoords :
            /\ Has(state.cells, toCellKey(c))
            /\ state.cells[toCellKey(c)].revealed
       /\ state.score >= 9
  /\ (provider.mounted /\ provider.rendered = << state >>) => state.score >= 9

\* The first reveal stopped at a mine next to the safe zone.
C36_Witness ==
  /\ AutoRevealed
  /\ Fresh(pre)
  /\ state.score >= 9
  /\ \E k \in DOMAIN state.cells : state.cells[k].isMine /\ ~state.cells[k].revealed
  /\ state.cells[toCellKey(RandomOrder[1])].isMine
  /\ \A c \in SafeZoneCoords : state.cells[toCellKey(c)].revealed

\* What the last call of _revealArea returned.
Flood == last.calls[1].returned

\* C37: one flood-fill gives no coordinate to queue.push twice, the start
\* coordinate included, and its loop makes at most as many passes as there
\* were pushes, which is at most 1 + 8 * openedCount.
C37_NoDuplicateEnqueue ==
  (last.op = "revealArea") =>
    /\ Flood.pushed[1] = last.coord
    /\ \A i, j \in DOMAIN Flood.pushed : Flood.pushed[i] = Flood.pushed[j] => i = j
    /\ Flood.iterations <= Len(Flood.pushed)
    /\ Len(Flood.pushed) <= 1 + 8 * Flood.openedCount
    /\ Flood.iterations <= 1 + 8 * Flood.openedCount

\* A flood-fill that opened several cells and took a flagged cell from the
\* queue without opening it.
C37_Witness ==
  /\ last.op = "revealArea"
  /\ Flood.openedCount >= 9
  /\ Flood.iterations > Flood.openedCount
  /\ Len(Flood.pushed) > 9

====
